---- MODULE Spec2Model ----
(***************************************************************************)
(* Verification model of the trading dashboard: the order execution stub   *)
(* (executeOrder / executeRebalance of PortfolioManagement), the           *)
(* update-prices route, the portfolio tracker's fetchPortfolioMetrics and  *)
(* the three AI routes.                                                    *)
(*                                                                         *)
(* The database is modelled as the code addresses it: a table holds the    *)
(* columns the code reads and writes.  executeOrder reads and writes the   *)
(* column avg_price; update-prices and the tracker read average_price.     *)
(* Both columns are kept, under their own names.                           *)
(*                                                                         *)
(* JavaScript numbers that come out of a division are modelled as exact    *)
(* rationals [n, d] in lowest terms (floating point rounding is not        *)
(* modelled).  A nullable column is <<>> (null) or <<v>>.                  *)
(***************************************************************************)
EXTENDS Integers, Sequences, FiniteSets, TLC

(* ---------------------------- bounds ---------------------------------- *)
\* cap on the number of rows in the orders table when every database call succeeds
MaxFills == 4
\* cap on the number of rows in the orders table when two sessions run concurrently
MaxOrders == 3
\* cap on the number of rows in the orders table while forms with empty fields are submitted
MaxFormOrders == 2
\* cap on the number of rows in the orders table while update-prices requests run
MaxPricedOrders == 2
\* cap on the number of market-data fetches RealTimeMarketData starts
MaxFetches == 4
\* cap on the number of orders of the session whose database calls may fail
MaxFailOrders == 2
\* caps on the agents created and on the handler calls of AgentManagement
MaxAgents == 2
MaxAgentOps == 3
\* cap on the number of runs of the tracker's effect (mounts and userId changes)
MaxEffects == 3
\* cap on the number of fetches a mounted tracker starts
MaxTrackerFetches == 4
\* cap on the number of stored positions a mounted tracker polls
MaxTrackerRows == 1
\* cap on the number of stored positions the tracker is run against
MaxRows == 2
\* cap on the number of rows the AI routes store
MaxAiRows == 2
\* cap on the rows in the orders table before a rebalancing run starts
MaxRebalanceOrders == 2
\* cap on the realtime events an AgentCollaboration component receives
MaxEvents == 2

\* browser sessions running PortfolioManagement against the same database
Clients == {"c1", "c2"}
\* agent ids the user types into the order form
AgentIds == {"a1", "a2"}
\* symbols the user types into the order form
Symbols == {"TCS", "XYZ"}
\* contents of the quantity field, an input of type number (lines 466-472): "" is
\* the empty field and what the field holds after text that is not a number
QtyTexts == {"", "1", "2", "0", "-1"}
\* sample outcomes of Math.random() * 1000 + 500
FillPrices == {500, 1400}

Sides == {"buy", "sell"}
Pairs == AgentIds \X Symbols

(* ------------------------ nullable values ------------------------------ *)
NULL == <<>>
Some(v) == <<v>>
\* JavaScript arithmetic on a nullable number: null coerces to 0
Num(x) == IF x = NULL THEN 0 ELSE x[1]
\* JavaScript truthiness of a nullable number (null and 0 are falsy)
Truthy(x) == x # NULL /\ x[1] # 0

(* ----------------------------- state ----------------------------------- *)
\* PortfolioManagement and the tables it writes
VARIABLES
    orders,      \* table orders: sequence of rows, id = index
    positions,   \* table portfolio_positions: sequence of rows, id = index
    pc,          \* per client: where its executeOrder call stands
    call,        \* per client: locals of the executeOrder call in progress
    form,        \* per client: order form fields
    isLoading,   \* per client: isLoading flag of PortfolioManagement
    toasts,      \* per client: notifications raised by the current (or last) handler
    shown,       \* per client: positions state of PortfolioManagement
    trail,       \* per (agent, symbol): position writes that took effect, in order
    crashed      \* ids of the orders whose executeOrder call was cut short

\* update-prices route
VARIABLES
    upPc,        \* update-prices request: "idle", "market", "rows"
    upSymbols,   \* uniqueSymbols of the request
    upMarket,    \* marketData.data: symbol -> close_price, for the symbols returned
    upTodo,      \* symbols whose position select has not been answered yet
    upWrites,    \* row updates sent and not yet answered
    upResponse,  \* last response of the route
    upQuiet      \* bookkeeping: no executeOrder or executeRebalance step was taken
                 \* since the request in progress started

\* LivePortfolioTracker
VARIABLES
    metrics,         \* null or [m: the metrics state, userId and rows: what the fetch read]
    trackerLoading,  \* isLoading flag of the tracker
    lastUpdate       \* lastUpdate state: null or a date

\* AI routes (generate-strategy, adapt-strategy, collaborate)
VARIABLES
    aiPc,        \* "idle", "model" (waiting for the language model), "persist"
    aiReq,       \* the request being served (or served last)
    aiText,      \* text returned by the language model
    aiResult,    \* null or the result the route took: the parsed value or the fallback
    aiSaved,     \* whether the persistence step stored its row: "none", "yes", "no"
    aiResponse,  \* the response of the request served last
    strategyRows, \* number of rows in table strategies
    collabRows   \* number of rows in table agent_collaborations

\* RealTimeMarketData as mounted by TradingDashboard
VARIABLES
    rtMounted,    \* the market tab content is mounted
    rtTimers,     \* number of active 15-second interval timers
    rtCallback,   \* render of the dashboard whose onDataUpdate fetchMarketData closes over
    rtOpen,       \* fetches in flight, as indices into rtLog
    rtLog,        \* bookkeeping: what started each fetch, in order
    rtConnected,  \* isConnected state
    rtLoading,    \* isLoading state
    rtToast,      \* last notification of the component
    dashRenders,  \* number of times the dashboard re-rendered after its setMarketData
    dashPositions \* positions state of the dashboard: the rows read, the list set from them

orderVars == <<orders, positions, pc, call, form, isLoading, toasts, shown, trail, crashed>>
priceVars == <<upPc, upSymbols, upMarket, upTodo, upWrites, upResponse, upQuiet>>
metricVars == <<metrics, trackerLoading, lastUpdate>>
aiVars == <<aiPc, aiReq, aiText, aiResult, aiSaved, aiResponse, strategyRows, collabRows>>
\* LivePortfolioTracker as a mounted component: its userId prop, the intervals that
\* are set, the number of effect runs, and the fetches started (cause and userId)
VARIABLES trMounted, trUserId, trTimers, trEffects, trLog
\* AgentManagement: the trading_agents table, the displayed list (agents), the form, the
\* agent being edited, the last toast, and the last handler call with its outcome
VARIABLES agentRows, agentList, agForm, agSelected, agToast, agLast, agCreated, agOps
\* the handler calls of AgentManagement whose database reply has not arrived yet,
\* each with the agents list of the render it was started from
VARIABLES agCalls
\* the agents list of TradingDashboard, and the run of successful toggles applied last:
\* the agent, the status it had before the run, and the length of the run (0, 1 or 2)
VARIABLES dashAgents, agTwice
\* AgentCollaboration: where each fetch of a mounted component stands, whether the
\* initial fetchData has finished, isLoading, the lists set, the realtime events seen
VARIABLES acFetch, acDone, acLoading, acData, acEvents
\* the live-data route: the quote returned last (prices in tenths of a rupee)
VARIABLES quote
marketVars == <<rtMounted, rtTimers, rtCallback, rtOpen, rtLog, rtConnected, rtLoading,
                rtToast, dashRenders, dashPositions>>
trackerVars == <<trMounted, trUserId, trTimers, trEffects, trLog>>
agentVars == <<agentRows, agentList, agForm, agSelected, agToast, agLast, agCreated, agOps,
               agCalls, dashAgents, agTwice>>
acVars == <<acFetch, acDone, acLoading, acData, acEvents>>
quoteVars == <<quote>>
viewVars == <<marketVars, trackerVars, agentVars, acVars, quoteVars>>
vars == <<orderVars, priceVars, metricVars, aiVars, viewVars>>

(* --------------------------- rationals --------------------------------- *)
Abs(x) == IF x < 0 THEN -x ELSE x

RECURSIVE GCD(_, _)
GCD(a, b) == IF b = 0 THEN a ELSE GCD(b, a % b)

Sign(x) == IF x < 0 THEN -1 ELSE IF x > 0 THEN 1 ELSE 0

\* n / d in lowest terms with a positive denominator; a division by zero gives
\* Infinity (1/0), -Infinity (-1/0) or NaN (0/0) as in JavaScript
Rat(n, d) ==
    IF d = 0
    THEN [n |-> Sign(n), d |-> 0]
    ELSE LET g == GCD(Abs(n), Abs(d))
             s == IF d < 0 THEN -1 ELSE 1
         IN  [n |-> (s * n) \div g, d |-> (s * d) \div g]

RatInt(k) == [n |-> k, d |-> 1]
RatAdd(x, y) == Rat(x.n * y.d + y.n * x.d, x.d * y.d)
RatMul(x, y) == Rat(x.n * y.n, x.d * y.d)
RatDiv(x, y) == Rat(x.n * y.d, x.d * y.n)

(* ------------------------ order execution stub ------------------------- *)
\* Number.parseInt of the quantity field
ParseInt(t) == CASE t = "1" -> 1 [] t = "2" -> 2 [] t = "0" -> 0 [] t = "-1" -> -1

\* variant: executeOrder leaves its order pending
FilledStatus_Pending == "pending"

\* status written by executeOrder (line 230)
FilledStatus == "filled"

\* variant: executeRebalance marks its order filled
RebalanceStatus_Filled == "filled"

\* status written by executeRebalance (line 319)
RebalanceStatus == "pending"

\* variant: the sell side is not negated
SignedQuantity_Unsigned(side, qtyText) == ParseInt(qtyText)

\* const quantity = orderSide === "buy" ? parseInt(q) : -parseInt(q)
SignedQuantity(side, qtyText) ==
    IF side = "buy" THEN ParseInt(qtyText) ELSE -ParseInt(qtyText)

\* signed quantity of an order row (+ for buy, - for sell)
OrderSigned(o) == IF o.side = "buy" THEN o.quantity ELSE -o.quantity

\* const newQuantity = existingPosition.quantity + quantity
NewQuantity(oldQty, quantity) == oldQty + quantity

\* variant: the mean of the old average and the fill price, quantities ignored
NewAvgPrice_Unweighted(oldAvg, oldQty, currentPrice, quantity) ==
    IF oldQty + quantity = 0
    THEN RatInt(0)
    ELSE RatDiv(RatAdd(oldAvg, RatInt(currentPrice)), RatInt(2))

\* variant: no guard for a position that becomes flat, the division is always made
NewAvgPrice_Unguarded(oldAvg, oldQty, currentPrice, quantity) ==
    RatDiv(RatAdd(RatMul(oldAvg, RatInt(oldQty)), RatInt(currentPrice * quantity)),
           RatInt(oldQty + quantity))

\* newQuantity === 0 ? 0 : (avg_price * quantity_old + currentPrice * quantity) / newQuantity
NewAvgPrice(oldAvg, oldQty, currentPrice, quantity) ==
    IF NewQuantity(oldQty, quantity) = 0
    THEN RatInt(0)
    ELSE RatDiv(RatAdd(RatMul(oldAvg, RatInt(oldQty)), RatInt(currentPrice * quantity)),
                RatInt(NewQuantity(oldQty, quantity)))

\* row inserted by executeOrder when no position was found
NewPositionRow(agent, symbol, quantity, currentPrice) ==
    [agent_id |-> agent, symbol |-> symbol, quantity |-> quantity,
     avg_price |-> RatInt(currentPrice), average_price |-> NULL,
     current_price |-> Some(currentPrice),
     market_value |-> NULL, unrealized_pnl |-> NULL]

\* row after executeOrder's update of an existing position
UpdatedPositionRow(row, newQuantity, newAvgPrice, currentPrice) ==
    [row EXCEPT !.quantity = newQuantity, !.avg_price = newAvgPrice,
                !.current_price = Some(currentPrice)]

EmptyForm == [agent |-> "", symbol |-> "", qty |-> "", side |-> "buy"]

\* locals of an executeOrder call, with the bookkeeping the properties need
\* (failed: some database reply of the call carried an error)
NoCall ==
    [agent |-> "", symbol |-> "", side |-> "buy", qtyText |-> "",
     orderId |-> 0, currentPrice |-> 0, quantity |-> 0, existing |-> NULL,
     failed |-> FALSE, posWritten |-> FALSE, solo |-> TRUE]


\* what a step of PortfolioManagement leaves alone: the routes and the tracker
\* (it is noted when the step falls into an update-prices request)
OrderFrame ==
    /\ upQuiet' = (upQuiet /\ upPc = "idle")
    /\ UNCHANGED <<upPc, upSymbols, upMarket, upTodo, upWrites, upResponse, metricVars, aiVars,
                   viewVars>>

\* ids of the rows of portfolio_positions for (agent, symbol)
Matching(pos, agent, symbol) ==
    {i \in DOMAIN pos : pos[i].agent_id = agent /\ pos[i].symbol = symbol}

RECURSIVE SumOver(_, _)
SumOver(f, S) ==
    IF S = {} THEN 0
    ELSE LET x == CHOOSE y \in S : TRUE IN f[x] + SumOver(f, S \ {x})

\* stored quantity for (agent, symbol): 0 without a row, the rows' total otherwise
StoredQty(pos, agent, symbol) ==
    LET ids == Matching(pos, agent, symbol)
    IN  SumOver([i \in ids |-> pos[i].quantity], ids)

\* .select(...).neq("quantity", 0) of fetchPositions: rows with a non-zero quantity
\* (every agent of the model belongs to the signed-in user)
RECURSIVE NonZeroRows(_)
NonZeroRows(pos) ==
    IF pos = <<>> THEN <<>>
    ELSE IF Head(pos).quantity # 0
         THEN <<Head(pos)>> \o NonZeroRows(Tail(pos))
         ELSE NonZeroRows(Tail(pos))

InFlight(c) == pc[c] # "idle"

OrderInitWith(pos) ==
    /\ orders = <<>>
    /\ positions = pos
    /\ pc = [c \in Clients |-> "idle"]
    /\ call = [c \in Clients |-> NoCall]
    /\ form = [c \in Clients |-> EmptyForm]
    /\ isLoading = [c \in Clients |-> FALSE]
    /\ toasts = [c \in Clients |-> <<>>]
    /\ shown = [c \in Clients |-> <<>>]
    /\ trail = [p \in Pairs |-> <<>>]
    /\ crashed = {}

OrderInit == OrderInitWith(<<>>)

\* room left in the orders table under the cap, counting the inserts already sent
OrderRoom(cap) == Len(orders) + Cardinality({d \in Clients : pc[d] = "insertOrder"}) < cap

\* variant: the agent field is not validated
MissingInformation_NoAgent(f) == f.symbol = "" \/ f.qty = ""

\* line 211: !selectedAgent || !selectedSymbol || !orderQuantity
MissingInformation(f) == f.agent = "" \/ f.symbol = "" \/ f.qty = ""

\* the user fills the order form with f (lines 444-492) and clicks Place Order;
\* executeOrder, lines 208-220: validation, setIsLoading(true), order insert sent
ExecuteOrderStart(c, f, cap) ==
    /\ OrderFrame
    /\ pc[c] = "idle"
    /\ OrderRoom(cap)
    /\ form' = [form EXCEPT ![c] = f]
    /\ IF MissingInformation(f)
       THEN /\ toasts' = [toasts EXCEPT ![c] = <<"Missing Information">>]
            /\ UNCHANGED <<orders, positions, pc, call, isLoading, shown, trail, crashed>>
       ELSE LET others == {d \in Clients \ {c} :
                              /\ InFlight(d)
                              /\ call[d].agent = f.agent
                              /\ call[d].symbol = f.symbol}
            IN  /\ isLoading' = [isLoading EXCEPT ![c] = TRUE]
                /\ toasts' = [toasts EXCEPT ![c] = <<>>]
                /\ pc' = [pc EXCEPT ![c] = "insertOrder"]
                /\ call' = [d \in Clients |->
                              IF d = c
                              THEN [NoCall EXCEPT !.agent = f.agent, !.symbol = f.symbol,
                                                  !.side = f.side, !.qtyText = f.qty,
                                                  !.solo = (others = {})]
                              ELSE IF d \in others
                                   THEN [call[d] EXCEPT !.solo = FALSE]
                                   ELSE call[d]]
                /\ UNCHANGED <<orders, positions, shown, trail, crashed>>

\* the row executeOrder inserts into orders (lines 223-232); origin is bookkeeping,
\* not a column: the handler that created the row
OrderRow(cl) ==
    [agent_id |-> cl.agent, symbol |-> cl.symbol, side |-> cl.side,
     quantity |-> ParseInt(cl.qtyText), status |-> FilledStatus,
     origin |-> "executeOrder"]

\* executeOrder, lines 223-247: reply of the order insert
\* res: "ok", "schema" (message names the schema cache / a missing table), "error"
OrderInsertReply(c, res, price) ==
    /\ OrderFrame
    /\ pc[c] = "insertOrder"
    /\ IF res = "ok"
       THEN /\ orders' = Append(orders, OrderRow(call[c]))
            /\ call' = [call EXCEPT ![c].orderId = Len(orders) + 1,
                                    ![c].currentPrice = price,
                                    ![c].quantity = SignedQuantity(call[c].side, call[c].qtyText)]
            /\ pc' = [pc EXCEPT ![c] = "lookup"]
            /\ UNCHANGED <<isLoading, toasts>>
       ELSE /\ price = 500
            /\ toasts' = [toasts EXCEPT ![c] =
                            Append(@, IF res = "schema" THEN "Database Setup Required"
                                                        ELSE "Failed to place order")]
            /\ call' = [call EXCEPT ![c] = NoCall]
            /\ isLoading' = [isLoading EXCEPT ![c] = FALSE]
            /\ pc' = [pc EXCEPT ![c] = "idle"]
            /\ UNCHANGED orders
    /\ UNCHANGED <<positions, form, shown, trail, crashed>>

\* executeOrder, lines 249-255: .select("*").eq(agent_id).eq(symbol).single()
\* data is the row when exactly one row matches and the query succeeds, null otherwise
LookupData(pos, agent, symbol, res) ==
    LET ids == Matching(pos, agent, symbol)
    IN  IF res = "ok" /\ Cardinality(ids) = 1
        THEN LET i == CHOOSE j \in ids : TRUE
             IN  Some([id |-> i, quantity |-> pos[i].quantity, avg_price |-> pos[i].avg_price])
        ELSE NULL

PositionLookup(c, res) ==
    /\ OrderFrame
    /\ pc[c] = "lookup"
    /\ call' = [call EXCEPT ![c].existing = LookupData(positions, call[c].agent, call[c].symbol, res),
                            ![c].failed = @ \/ res = "error"]
    /\ pc' = [pc EXCEPT ![c] = "write"]
    /\ UNCHANGED <<orders, positions, form, isLoading, toasts, shown, trail, crashed>>

\* sum of the signed quantities of the filled orders of (agent, symbol)
SumFilled(ords, agent, symbol) ==
    LET ids == {i \in DOMAIN ords : /\ ords[i].agent_id = agent
                                    /\ ords[i].symbol = symbol
                                    /\ ords[i].status = "filled"}
    IN  SumOver([i \in ids |-> OrderSigned(ords[i])], ids)

\* variant: the write sets the quantity to the total of the filled orders of the pair
PositionsAfterWrite_Reconcile(pos, cl) ==
    LET q == SumFilled(orders, cl.agent, cl.symbol)
    IN  IF cl.existing # NULL
        THEN [pos EXCEPT ![cl.existing[1].id] =
                UpdatedPositionRow(pos[cl.existing[1].id], q,
                    NewAvgPrice(cl.existing[1].avg_price, cl.existing[1].quantity,
                                cl.currentPrice, cl.quantity),
                    cl.currentPrice)]
        ELSE Append(pos, NewPositionRow(cl.agent, cl.symbol, q, cl.currentPrice))

\* the positions table after the update / insert of lines 257-285 took effect
PositionsAfterWrite(pos, cl) ==
    IF cl.existing # NULL
    THEN LET ex == cl.existing[1]
         IN  [pos EXCEPT ![ex.id] =
                 UpdatedPositionRow(pos[ex.id],
                                    NewQuantity(ex.quantity, cl.quantity),
                                    NewAvgPrice(ex.avg_price, ex.quantity, cl.currentPrice, cl.quantity),
                                    cl.currentPrice)]
    ELSE Append(pos, NewPositionRow(cl.agent, cl.symbol, cl.quantity, cl.currentPrice))

\* bookkeeping: the position write of call cl that turned pos into newPos
FillRecord(pos, newPos, cl) ==
    [orderId |-> cl.orderId, side |-> cl.side, qty |-> ParseInt(cl.qtyText),
     price |-> cl.currentPrice,
     clean |-> ~cl.failed, solo |-> cl.solo,
     pre |-> StoredQty(pos, cl.agent, cl.symbol),
     post |-> StoredQty(newPos, cl.agent, cl.symbol)]

\* executeOrder, lines 257-290: position update or insert (its error is not read),
\* then the "Order Placed" toast
PositionWrite(c, res) ==
    /\ OrderFrame
    /\ pc[c] = "write"
    /\ LET cl == call[c]
           p == <<cl.agent, cl.symbol>>
           newPos == IF res = "ok" THEN PositionsAfterWrite(positions, cl) ELSE positions
       IN  /\ positions' = newPos
           /\ trail' = IF res = "ok"
                       THEN [trail EXCEPT ![p] = Append(@, FillRecord(positions, newPos, cl))]
                       ELSE trail
           /\ call' = [call EXCEPT ![c].failed = @ \/ res = "error",
                                   ![c].posWritten = (res = "ok")]
    /\ toasts' = [toasts EXCEPT ![c] = Append(@, "Order Placed")]
    /\ pc' = [pc EXCEPT ![c] = "refetch"]
    /\ UNCHANGED <<orders, form, isLoading, shown, crashed>>

\* executeOrder, lines 292-308: fetchPositions (lines 106-139), form reset, finally
OrderFinish(c, res) ==
    /\ OrderFrame
    /\ pc[c] = "refetch"
    /\ shown' = [shown EXCEPT ![c] = IF res = "ok" THEN NonZeroRows(positions) ELSE @]
    /\ toasts' = [toasts EXCEPT ![c] =
                    IF res = "ok" THEN @
                    ELSE Append(@, IF res = "schema" THEN "Database Setup Required"
                                                     ELSE "Failed to fetch portfolio positions")]
    /\ form' = [form EXCEPT ![c] = [@ EXCEPT !.agent = "", !.symbol = "", !.qty = ""]]
    /\ isLoading' = [isLoading EXCEPT ![c] = FALSE]
    /\ call' = [call EXCEPT ![c] = NoCall]
    /\ pc' = [pc EXCEPT ![c] = "idle"]
    /\ UNCHANGED <<orders, positions, trail, crashed>>

\* the page is closed or reloaded while executeOrder awaits the database, after the
\* order insert and before the position write: the rest of the call never runs and
\* the component is mounted afresh
Crash(c) ==
    /\ OrderFrame
    /\ pc[c] \in {"lookup", "write"}
    /\ pc' = [pc EXCEPT ![c] = "idle"]
    /\ call' = [call EXCEPT ![c] = NoCall]
    /\ form' = [form EXCEPT ![c] = EmptyForm]
    /\ isLoading' = [isLoading EXCEPT ![c] = FALSE]
    /\ toasts' = [toasts EXCEPT ![c] = <<>>]
    /\ shown' = [shown EXCEPT ![c] = NonZeroRows(positions)]
    /\ crashed' = crashed \cup {call[c].orderId}
    /\ UNCHANGED <<orders, positions, trail>>

\* generateRebalanceRecommendations, lines 178-206
Recommendations ==
    <<[symbol |-> "RELIANCE", recommendedAction |-> "sell", quantity |-> 50],
      [symbol |-> "TCS", recommendedAction |-> "buy", quantity |-> 25],
      [symbol |-> "INFY", recommendedAction |-> "sell", quantity |-> 75]>>

\* the row executeRebalance inserts into orders (lines 313-321)
RebalanceRow(agent, rec) ==
    [agent_id |-> agent, symbol |-> rec.symbol,
     side |-> IF rec.recommendedAction = "buy" THEN "buy" ELSE "sell",
     quantity |-> rec.quantity, status |-> RebalanceStatus,
     origin |-> "executeRebalance"]

\* the Execute button of a recommendation, with agent typed into the form's
\* agent field (selectedAgent); executeRebalance, lines 311-346
ExecuteRebalance(c, agent, rec, res, cap) ==
    /\ OrderFrame
    /\ pc[c] = "idle"
    /\ OrderRoom(cap)
    /\ form' = [form EXCEPT ![c].agent = agent]
    /\ orders' = IF res = "ok" THEN Append(orders, RebalanceRow(agent, rec)) ELSE orders
    /\ toasts' = [toasts EXCEPT ![c] =
                    <<CASE res = "ok" -> "Rebalance Order Placed"
                        [] res = "schema" -> "Database Setup Required"
                        [] OTHER -> "Rebalance Failed">>]
    /\ UNCHANGED <<positions, pc, call, isLoading, shown, trail, crashed>>

\* the Rebalance Portfolio button with the recommendations recs in state and agent
\* in the form's agent field; executeAllRebalanceOrders, lines 361-379: executeRebalance
\* is awaited for each recommendation (replies[k] is the reply to the k-th insert) and
\* catches its own errors, then the closing toast is raised
ExecuteAllRebalanceOrders(c, agent, recs, replies, cap) ==
    /\ OrderFrame
    /\ pc[c] = "idle"
    /\ OrderRoom(cap)
    /\ form' = [form EXCEPT ![c].agent = agent]
    /\ LET stored == SelectSeq([k \in DOMAIN recs |-> [rec |-> recs[k], res |-> replies[k]]],
                               LAMBDA x : x.res = "ok")
       IN  orders' = orders \o [k \in DOMAIN stored |-> RebalanceRow(agent, stored[k].rec)]
    /\ toasts' = [toasts EXCEPT ![c] =
                    [k \in DOMAIN recs |->
                        CASE replies[k] = "ok" -> "Rebalance Order Placed"
                          [] replies[k] = "schema" -> "Database Setup Required"
                          [] OTHER -> "Rebalance Failed"]
                    \o <<IF recs = <<>> THEN "Portfolio Rebalanced: 0 orders"
                         ELSE "Portfolio Rebalanced: 3 orders">>]
    /\ UNCHANGED <<positions, pc, call, isLoading, shown, trail, crashed>>

\* a filled-in order form
FormOf(agent, symbol, side, qty) == [agent |-> agent, symbol |-> symbol, qty |-> qty, side |-> side]

\* replies of the database: "ok", "schema" (the message names the schema cache or a
\* missing table), "error" (any other error)
Replies == {"ok", "schema", "error"}

\* the steps of executeOrder for the sessions CS, the forms FS, the fill prices PS,
\* the replies RS and at most cap order rows
OrderNext(CS, FS, PS, RS, cap) ==
    \/ \E c \in CS, f \in FS : ExecuteOrderStart(c, f, cap)
    \/ \E c \in CS, res \in RS, price \in PS : OrderInsertReply(c, res, price)
    \/ \E c \in CS, res \in RS \ {"schema"} : PositionLookup(c, res)
    \/ \E c \in CS, res \in RS \ {"schema"} : PositionWrite(c, res)
    \/ \E c \in CS, res \in RS : OrderFinish(c, res)

(* --------------------------- update-prices ----------------------------- *)
\* base of fetchSymbolData's price table (live-data route, lines 74-87)
StockBase(symbol) == IF symbol = "TCS" THEN 3675 ELSE 1000

\* sample close prices the market-data route returns for a symbol
CloseSamples(symbol) == {StockBase(symbol) - 10, StockBase(symbol) + 10}


PriceInit ==
    /\ upPc = "idle"
    /\ upSymbols = {}
    /\ upMarket = <<>>
    /\ upTodo = {}
    /\ upWrites = {}
    /\ upResponse = "none"
    /\ upQuiet = TRUE

\* lines 34-41: symbols of the positions with a non-zero quantity
\* (a failed select leaves positions null, handled like an empty list)
UpdatePricesBegin(res) ==
    /\ upPc = "idle"
    /\ LET syms == IF res = "ok"
                   THEN {positions[i].symbol : i \in {j \in DOMAIN positions : positions[j].quantity # 0}}
                   ELSE {}
       IN  IF syms = {}
           THEN /\ upResponse' = "No positions to update"
                /\ UNCHANGED <<upPc, upSymbols>>
           ELSE /\ upSymbols' = syms
                /\ upPc' = "market"
                /\ upResponse' = "none"
    /\ upQuiet' = TRUE
    /\ UNCHANGED <<upMarket, upTodo, upWrites>>

\* an update-prices POST arrives
UpdatePricesStart(res) ==
    /\ UpdatePricesBegin(res)
    /\ UNCHANGED <<orderVars, metricVars, aiVars, viewVars>>

\* lines 43-54: reply of the market-data route; a reply without success throws
UpdatePricesMarket(res, closes) ==
    /\ UNCHANGED <<metricVars, aiVars, viewVars>>
    /\ upPc = "market"
    /\ IF res = "ok"
       THEN /\ upMarket' = closes
            /\ upTodo' = upSymbols
            /\ upPc' = "rows"
            /\ UNCHANGED <<upResponse, upQuiet>>
       ELSE /\ closes = [s \in upSymbols |-> StockBase(s) - 10]
            /\ upResponse' = "Failed to update portfolio prices"
            /\ upQuiet' = TRUE
            /\ upPc' = "idle"
            /\ UNCHANGED <<upMarket, upTodo>>
    /\ UNCHANGED <<upSymbols, upWrites>>
    /\ UNCHANGED orderVars

\* lines 66-80: the update computed for one selected position row
PriceUpdate(id, row, close) ==
    [id |-> id,
     current_price |-> Some(close),
     market_value |-> Some(row.quantity * close),
     unrealized_pnl |-> Some((close - Num(row.average_price)) * row.quantity)]

\* lines 59-83: reply of the select of the positions of one symbol; the updates of
\* its rows are computed from the rows as read and sent together
UpdatePricesSelect(sym, res) ==
    /\ UNCHANGED <<metricVars, aiVars, viewVars>>
    /\ upPc = "rows"
    /\ sym \in upTodo
    /\ upTodo' = upTodo \ {sym}
    /\ LET ids == IF res = "ok"
                  THEN {i \in DOMAIN positions :
                           positions[i].symbol = sym /\ positions[i].quantity # 0}
                  ELSE {}
       IN  upWrites' = upWrites \cup {PriceUpdate(i, positions[i], upMarket[sym]) : i \in ids}
    /\ UNCHANGED <<upPc, upSymbols, upMarket, upResponse, upQuiet>>
    /\ UNCHANGED orderVars

\* lines 71-79: one row update takes effect (res = "ok") or fails unnoticed
UpdatePricesWrite(u, res) ==
    /\ UNCHANGED <<metricVars, aiVars, viewVars>>
    /\ upPc = "rows"
    /\ u \in upWrites
    /\ upWrites' = upWrites \ {u}
    /\ positions' = IF res = "ok"
                    THEN [positions EXCEPT ![u.id] =
                            [@ EXCEPT !.current_price = u.current_price,
                                      !.market_value = u.market_value,
                                      !.unrealized_pnl = u.unrealized_pnl]]
                    ELSE positions
    /\ UNCHANGED <<upPc, upSymbols, upMarket, upTodo, upResponse, upQuiet>>
    /\ UNCHANGED <<orders, pc, call, form, isLoading, toasts, shown, trail, crashed>>

\* lines 88-92: every select and update has been answered
UpdatePricesDone ==
    /\ UNCHANGED <<metricVars, aiVars, viewVars>>
    /\ upPc = "rows"
    /\ upTodo = {}
    /\ upWrites = {}
    /\ upResponse' = "Portfolio prices updated"
    /\ upQuiet' = TRUE
    /\ upPc' = "idle"
    /\ upSymbols' = {}
    /\ upMarket' = <<>>
    /\ UNCHANGED <<upTodo, upWrites>>
    /\ UNCHANGED orderVars

\* the steps of an update-prices POST for the replies RS
PricesNext(RS) ==
    \/ \E res \in RS : UpdatePricesStart(res)
    \/ \E res \in RS, closes \in [upSymbols -> UNION {CloseSamples(s) : s \in Symbols}] :
          /\ \A s \in upSymbols : closes[s] \in CloseSamples(s)
          /\ UpdatePricesMarket(res, closes)
    \/ \E sym \in Symbols, res \in RS : UpdatePricesSelect(sym, res)
    \/ \E u \in upWrites, res \in RS : UpdatePricesWrite(u, res)
    \/ UpdatePricesDone


(* ----------------------- LivePortfolioTracker --------------------------- *)
\* users of the dashboard and the owner of each agent (trading_agents.user_id)
Users == {"u1", "u2"}
AgentOwner(agent) == IF agent = "a1" THEN "u1" ELSE "u2"

\* variant: the quantity filter is missing
FetchedRows_AnyQuantity(pos, userId) ==
    SelectSeq(pos, LAMBDA r : AgentOwner(r.agent_id) = userId)

\* the rows the query of lines 40-47 returns for userId: the positions of the
\* user's agents with a non-zero quantity, in table order
RECURSIVE FetchedRows(_, _)
FetchedRows(pos, userId) ==
    IF pos = <<>>
    THEN <<>>
    ELSE LET r == Head(pos)
             rest == FetchedRows(Tail(pos), userId)
         IN  IF AgentOwner(r.agent_id) = userId /\ r.quantity # 0
             THEN <<r>> \o rest
             ELSE rest

\* positions.reduce((sum, pos) => sum + f(pos), 0)
RECURSIVE SumSeq(_)
SumSeq(seq) == IF seq = <<>> THEN 0 ELSE Head(seq) + SumSeq(Tail(seq))


\* pos.market_value || 0
MarketValueOrZero(pos) == IF Truthy(pos.market_value) THEN pos.market_value[1] ELSE 0

\* pos.unrealized_pnl || 0
UnrealizedPnLOrZero(pos) == IF Truthy(pos.unrealized_pnl) THEN pos.unrealized_pnl[1] ELSE 0

\* pos.quantity * pos.average_price
PositionCost(pos) == pos.quantity * Num(pos.average_price)

\* line 63: totalValue
TotalValue(rows) == SumSeq([k \in DOMAIN rows |-> MarketValueOrZero(rows[k])])

\* line 64: totalCost
TotalCost(rows) == SumSeq([k \in DOMAIN rows |-> PositionCost(rows[k])])

\* line 65: totalPnL
TotalPnL(rows) == SumSeq([k \in DOMAIN rows |-> UnrealizedPnLOrZero(rows[k])])

\* pos.market_value || pos.quantity * pos.average_price
ReportedMarketValue(pos) ==
    IF Truthy(pos.market_value) THEN pos.market_value[1] ELSE PositionCost(pos)

\* pos.current_price || pos.average_price
ReportedCurrentPrice(pos) ==
    IF Truthy(pos.current_price) THEN pos.current_price ELSE pos.average_price

\* pos.average_price > 0 ? ((pos.current_price - pos.average_price) / pos.average_price) * 100 : 0
PnlPercent(pos) ==
    IF Num(pos.average_price) > 0
    THEN Rat((Num(pos.current_price) - Num(pos.average_price)) * 100, Num(pos.average_price))
    ELSE RatInt(0)

\* variant: the share is taken of the reported market value, fallback included
Allocation_OfReported(pos, totalValue) ==
    IF totalValue > 0 THEN Rat(ReportedMarketValue(pos) * 100, totalValue) ELSE RatInt(0)

\* totalValue > 0 ? ((pos.market_value || 0) / totalValue) * 100 : 0
Allocation(pos, totalValue) ==
    IF totalValue > 0 THEN Rat(MarketValueOrZero(pos) * 100, totalValue) ELSE RatInt(0)

\* lines 72-81: one entry of processedPositions
ProcessedPosition(pos, totalValue) ==
    [symbol |-> pos.symbol,
     quantity |-> pos.quantity,
     averagePrice |-> pos.average_price,
     currentPrice |-> ReportedCurrentPrice(pos),
     marketValue |-> ReportedMarketValue(pos),
     unrealizedPnL |-> UnrealizedPnLOrZero(pos),
     pnlPercent |-> PnlPercent(pos),
     allocation |-> Allocation(pos, totalValue)]

\* lines 49-57: the metrics set when the query returns null or no row
ZeroMetrics ==
    [totalValue |-> 0, totalPnL |-> 0, totalPnLPercent |-> RatInt(0),
     dayChange |-> RatInt(0), dayChangePercent |-> RatInt(0), positions |-> <<>>]

\* lines 62-90: the metrics computed from a non-empty list of rows
ComputedMetrics(rows) ==
    LET totalValue == TotalValue(rows)
        totalCost == TotalCost(rows)
        totalPnL == TotalPnL(rows)
        dayChange == Rat(totalPnL, 10)
    IN  [totalValue |-> totalValue,
         totalPnL |-> totalPnL,
         totalPnLPercent |->
             IF totalCost > 0 THEN Rat(totalPnL * 100, totalCost) ELSE RatInt(0),
         dayChange |-> dayChange,
         dayChangePercent |->
             IF totalValue > 0
             THEN RatMul(RatDiv(dayChange, RatAdd(RatInt(totalValue), RatMul(RatInt(-1), dayChange))),
                         RatInt(100))
             ELSE RatInt(0),
         positions |-> [k \in DOMAIN rows |-> ProcessedPosition(rows[k], totalValue)]]

MetricInit ==
    /\ metrics = NULL
    /\ trackerLoading = TRUE
    /\ lastUpdate = NULL

\* lines 37-98: fetchPortfolioMetrics of a tracker mounted for userId; a failed query
\* returns data = null
FetchMetrics(userId, res) ==
    /\ LET rows == IF res = "ok" THEN FetchedRows(positions, userId) ELSE <<>>
       IN  IF res # "ok" \/ rows = <<>>
           THEN /\ metrics' = Some([userId |-> userId, rows |-> rows, m |-> ZeroMetrics])
                /\ UNCHANGED lastUpdate
           ELSE /\ metrics' = Some([userId |-> userId, rows |-> rows, m |-> ComputedMetrics(rows)])
                /\ lastUpdate' = Some("now")
    /\ trackerLoading' = FALSE

\* one fetchPortfolioMetrics call, whoever makes it
FetchPortfolioMetrics(userId, res) ==
    /\ FetchMetrics(userId, res)
    /\ UNCHANGED <<orderVars, priceVars, aiVars, viewVars>>

TrackerInit ==
    /\ trMounted = FALSE
    /\ trUserId = NULL
    /\ trTimers = {}
    /\ trEffects = 0
    /\ trLog = <<>>

\* variant: the cleanup does not clear the interval
ClearInterval_Leak(timers) == timers

\* line 105: the cleanup of the effect, clearInterval(interval)
ClearInterval(timers) == {}

\* lines 100-106: the effect body run for userId: fetchPortfolioMetrics() and
\* setInterval(fetchPortfolioMetrics, 30000), after the cleanup of the previous run
\* when there was one
TrackerEffect(cause, userId, res) ==
    /\ trEffects < MaxEffects
    /\ Len(trLog) < MaxTrackerFetches
    /\ trEffects' = trEffects + 1
    /\ trUserId' = Some(userId)
    /\ trTimers' = ClearInterval(trTimers) \cup {[id |-> trEffects + 1, userId |-> userId]}
    /\ trLog' = Append(trLog, [cause |-> cause, userId |-> userId])
    /\ FetchMetrics(userId, res)
    /\ UNCHANGED <<orderVars, priceVars, aiVars, marketVars, agentVars, acVars, quoteVars>>

\* part_000 line 519: the tracker is mounted with the dashboard's userId
TrackerMount(userId, res) ==
    /\ ~trMounted
    /\ trMounted' = TRUE
    /\ TrackerEffect("mount", userId, res)

\* the userId prop changes: dependency [userId] of line 106
TrackerUserIdChange(userId, res) ==
    /\ trMounted
    /\ trUserId # Some(userId)
    /\ trMounted' = TRUE
    /\ TrackerEffect("userId", userId, res)

\* line 104: an interval that is set fires and calls the fetchPortfolioMetrics it
\* was created with
TrackerTick(t, res) ==
    /\ t \in trTimers
    /\ Len(trLog) < MaxTrackerFetches
    /\ trLog' = Append(trLog, [cause |-> "tick", userId |-> t.userId])
    /\ FetchMetrics(t.userId, res)
    /\ UNCHANGED <<trMounted, trUserId, trTimers, trEffects>>
    /\ UNCHANGED <<orderVars, priceVars, aiVars, marketVars, agentVars, acVars, quoteVars>>

\* the tracker unmounts: the cleanup runs and the component state is dropped
TrackerUnmount ==
    /\ trMounted
    /\ trMounted' = FALSE
    /\ trUserId' = NULL
    /\ trTimers' = ClearInterval(trTimers)
    /\ metrics' = NULL
    /\ trackerLoading' = TRUE
    /\ lastUpdate' = NULL
    /\ UNCHANGED <<trEffects, trLog>>
    /\ UNCHANGED <<orderVars, priceVars, aiVars, marketVars, agentVars, acVars, quoteVars>>

\* trading-dashboard.tsx lines 135-143: one entry of transformedPositions
TransformedPosition(position) ==
    LET price == Num(ReportedCurrentPrice(position))
    IN  [symbol |-> position.symbol,
         quantity |-> position.quantity,
         average_price |-> position.average_price,
         current_price |-> ReportedCurrentPrice(position),
         market_value |-> position.quantity * price,
         unrealized_pnl |-> position.quantity * (price - Num(position.average_price))]

\* trading-dashboard.tsx lines 116-150: fetchPositions of the dashboard of userId
\* over the stored position rows; an error sets the empty list
FetchPositions(userId, res) ==
    /\ LET rows == IF res = "ok"
                   THEN SelectSeq(positions, LAMBDA r : AgentOwner(r.agent_id) = userId)
                   ELSE <<>>
       IN  dashPositions' = [rows |-> rows,
                             list |-> [k \in DOMAIN rows |-> TransformedPosition(rows[k])]]
    /\ UNCHANGED <<rtMounted, rtTimers, rtCallback, rtOpen, rtLog, rtConnected, rtLoading,
                   rtToast, dashRenders>>
    /\ UNCHANGED <<orderVars, priceVars, metricVars, aiVars, trackerVars, agentVars, acVars, quoteVars>>

\* stored field values of a sample position (average_price is NOT NULL in the schema)
FieldSamples ==
    [quantity : {-1, 0, 2},
     average_price : {Some(500)},
     current_price : {NULL, Some(600)},
     market_value : {NULL, Some(-600), Some(1200)},
     unrealized_pnl : {NULL, Some(200)}]

\* the k-th stored position: the first two belong to agent a1, the next to a2
SampleRow(k, f) ==
    [agent_id |-> IF k <= 2 THEN "a1" ELSE "a2",
     symbol |-> IF k % 2 = 1 THEN "TCS" ELSE "XYZ",
     quantity |-> f.quantity,
     avg_price |-> RatInt(Num(f.average_price)),
     average_price |-> f.average_price,
     current_price |-> f.current_price,
     market_value |-> f.market_value,
     unrealized_pnl |-> f.unrealized_pnl]

(* ------------------------------ AI routes ------------------------------- *)
Routes == {"generate-strategy", "adapt-strategy", "collaborate"}

\* fields generate-strategy requires of the parsed strategy (line 104)
RequiredFields == {"name", "description", "entryRules", "exitRules"}

\* what the language model wrote: plain prose, the JSON literal null, or a JSON
\* object with the given fields present and truthy
TextBodies ==
    {[kind |-> "prose", fields |-> {}], [kind |-> "null", fields |-> {}]}
        \cup {[kind |-> "object", fields |-> F] :
                 F \in {RequiredFields, RequiredFields \ {"exitRules"},
                        RequiredFields \ {"name"}, {}}}

\* how the text is wrapped: bare, in a ```json ... ``` fence, in a ``` ... ``` fence;
\* "open" is a text left with a leading ``` only
Fences == {"none", "json", "plain"}
LlmTexts == [fence : Fences, body : TextBodies]

\* text.trim().replace(/^```json\s*/, "").replace(/\s*```$/, "")
CleanedText(text) ==
    [text EXCEPT !.fence = IF @ = "json" THEN "none" ELSE IF @ = "plain" THEN "open" ELSE @]

\* JSON.parse: throws on a fenced text and on prose, else returns the value
JsonParse(text) ==
    IF text.fence # "none" \/ text.body.kind = "prose"
    THEN [ok |-> FALSE, value |-> NULL]
    ELSE [ok |-> TRUE, value |-> Some(text.body)]

\* variant: only the name is required
Complete_NameOnly(value) == value.kind = "object" /\ "name" \in value.fields

\* line 104: name, description, entryRules and exitRules are all truthy (reading a
\* property of null throws, which the same catch handles)
Complete(value) == value.kind = "object" /\ RequiredFields \subseteq value.fields

Fallback == [kind |-> "fallback", value |-> NULL]
FromModel(value) == [kind |-> "model", value |-> value]

\* generate-strategy, lines 94-184: the strategy taken from the text
GenerateStrategyResult(text) ==
    LET parsed == JsonParse(CleanedText(text))
    IN  IF parsed.ok /\ Complete(parsed.value[1]) THEN FromModel(parsed.value) ELSE Fallback

\* adapt-strategy lines 78-89 and collaborate lines 175-198: JSON.parse(text) or the fallback
ParsedOrFallback(text) ==
    LET parsed == JsonParse(text)
    IN  IF parsed.ok THEN FromModel(parsed.value) ELSE Fallback

RouteResult(route, text) ==
    IF route = "generate-strategy" THEN GenerateStrategyResult(text) ELSE ParsedOrFallback(text)

\* agents: what the trading_agents lookup of collaborate returned, once it has run
NoRequest == [route |-> "none", strategyType |-> NULL, strategyId |-> NULL, agents |-> NULL]
NoResponse == [status |-> "none", error |-> NULL, result |-> NULL, warning |-> NULL]
ErrorResponse(status, error) ==
    [status |-> status, error |-> Some(error), result |-> NULL, warning |-> NULL]
SuccessResponse(result, warning) ==
    [status |-> "200", error |-> NULL, result |-> Some(result), warning |-> warning]

AiInit ==
    /\ aiPc = "idle"
    /\ aiReq = NoRequest
    /\ aiText = NULL
    /\ aiResult = NULL
    /\ aiSaved = "none"
    /\ aiResponse = NoResponse
    /\ strategyRows = 0
    /\ collabRows = 0

\* a new request may start while the tables have room under the cap
AiRoom == aiPc = "idle" /\ strategyRows + collabRows < MaxAiRows

\* what every request resets
AiBegin(req) ==
    /\ aiReq' = req
    /\ aiText' = NULL
    /\ aiResult' = NULL
    /\ aiSaved' = "none"
    /\ UNCHANGED <<strategyRows, collabRows, orderVars, priceVars, metricVars, viewVars>>

\* generate-strategy lines 6-92: the prompt calls strategyType.toLowerCase(), which
\* throws when the request carries no strategyType
GenerateStrategyStart(strategyType) ==
    /\ AiRoom
    /\ AiBegin([NoRequest EXCEPT !.route = "generate-strategy", !.strategyType = strategyType])
    /\ IF strategyType = NULL
       THEN /\ aiResponse' = ErrorResponse("500", "Failed to generate strategy")
            /\ aiPc' = "idle"
       ELSE /\ aiResponse' = NoResponse
            /\ aiPc' = "model"

\* adapt-strategy lines 6-76: the strategy is looked up with .single()
AdaptStrategyStart(strategyId, res) ==
    /\ AiRoom
    /\ AiBegin([NoRequest EXCEPT !.route = "adapt-strategy", !.strategyId = Some(strategyId)])
    /\ IF res = "ok" /\ strategyId <= strategyRows
       THEN /\ aiResponse' = NoResponse
            /\ aiPc' = "model"
       ELSE /\ aiResponse' = ErrorResponse("404", "Strategy not found")
            /\ aiPc' = "idle"

\* variant: one agent found is enough
CollaborateStart_OneAgentEnough(agents) ==
    /\ AiRoom
    /\ AiBegin([NoRequest EXCEPT !.route = "collaborate", !.agents = Some(agents)])
    /\ IF agents = NULL \/ agents[1] < 1
       THEN /\ aiResponse' = ErrorResponse("400", "Need at least 2 agents for collaboration")
            /\ aiPc' = "idle"
       ELSE /\ aiResponse' = NoResponse
            /\ aiPc' = "model"

\* collaborate lines 92-173: agents is null or the list of the agents found
CollaborateStart(agents) ==
    /\ AiRoom
    /\ AiBegin([NoRequest EXCEPT !.route = "collaborate", !.agents = Some(agents)])
    /\ IF agents = NULL \/ agents[1] < 2
       THEN /\ aiResponse' = ErrorResponse("400", "Need at least 2 agents for collaboration")
            /\ aiPc' = "idle"
       ELSE /\ aiResponse' = NoResponse
            /\ aiPc' = "model"

\* the message of the 500 response of a route
FailureMessage(route) ==
    CASE route = "generate-strategy" -> "Failed to generate strategy"
      [] route = "adapt-strategy" -> "Failed to adapt strategy"
      [] route = "collaborate" -> "Failed to generate collaboration plan"

\* generateText returns (res = "ok") and the route parses the text, or it throws
AiModelReply(text, res) ==
    /\ aiPc = "model"
    /\ IF res = "ok"
       THEN /\ aiText' = Some(text)
            /\ aiResult' = Some(RouteResult(aiReq.route, text))
            /\ aiPc' = "persist"
            /\ UNCHANGED aiResponse
       ELSE /\ text = [fence |-> "none", body |-> [kind |-> "prose", fields |-> {}]]
            /\ aiResponse' = ErrorResponse("500", FailureMessage(aiReq.route))
            /\ aiPc' = "idle"
            /\ UNCHANGED <<aiText, aiResult>>
    /\ UNCHANGED <<aiReq, aiSaved, strategyRows, collabRows, orderVars, priceVars, metricVars,
                   viewVars>>

\* generate-strategy lines 220-227: savedStrategy.id is set in the stored row and in
\* the stand-in built when the insert failed (id: Date.now())
GenerateWarning(savedId) ==
    IF savedId = NULL
    THEN Some("Strategy generated but not saved to database. Please run database setup scripts.")
    ELSE NULL

\* the insert of the route is answered: generate-strategy (lines 186-227) and
\* adapt-strategy (lines 92-103) answer success either way, collaborate (lines
\* 201-221) throws on an insert error
AiPersistReply(res) ==
    /\ aiPc = "persist"
    /\ aiPc' = "idle"
    /\ aiSaved' = IF res = "ok" THEN "yes" ELSE "no"
    /\ strategyRows' = IF aiReq.route = "generate-strategy" /\ res = "ok"
                       THEN strategyRows + 1 ELSE strategyRows
    /\ collabRows' = IF aiReq.route # "generate-strategy" /\ res = "ok"
                     THEN collabRows + 1 ELSE collabRows
    /\ aiResponse' =
          CASE aiReq.route = "generate-strategy" ->
                 SuccessResponse(aiResult[1],
                     GenerateWarning(IF res = "ok" THEN Some("row id") ELSE Some("Date.now()")))
            [] aiReq.route = "adapt-strategy" -> SuccessResponse(aiResult[1], NULL)
            [] aiReq.route = "collaborate" ->
                 IF res = "ok"
                 THEN SuccessResponse(aiResult[1], NULL)
                 ELSE ErrorResponse("500", FailureMessage("collaborate"))
    /\ UNCHANGED <<aiReq, aiText, aiResult, orderVars, priceVars, metricVars, viewVars>>

\* the AI routes, one request at a time
AiNext ==
    \/ \E st \in {NULL, Some("momentum")} : GenerateStrategyStart(st)
    \/ \E id \in 1..MaxAiRows, res \in {"ok", "error"} : AdaptStrategyStart(id, res)
    \/ \E agents \in {NULL, Some(0), Some(1), Some(2)} : CollaborateStart(agents)
    \/ \E text \in LlmTexts, res \in {"ok", "error"} : AiModelReply(text, res)
    \/ \E res \in {"ok", "error"} : AiPersistReply(res)

(* --------------------------- AgentManagement ---------------------------- *)
\* database replies: success, an error whose message names a missing table or the
\* schema cache, any other error
AgentReplies == {"ok", "setup", "error"}

Trim(name) == IF name = " " THEN "" ELSE name

\* lines 360-373: resetForm
BlankForm == [name |-> "", strategy_type |-> ""]

AgentInit ==
    /\ agentRows = {}
    /\ agentList = <<>>
    /\ agForm = BlankForm
    /\ agSelected = NULL
    /\ agToast = NULL
    /\ agLast = [op |-> "none", res |-> "none"]
    /\ agCreated = 0
    /\ agOps = 0
    /\ agCalls = {}
    /\ dashAgents = <<>>
    /\ agTwice = [id |-> "", before |-> "", n |-> 0]

\* a handler is called: the record of the call and of how it ended
AgentCall(op, res) ==
    /\ agOps < MaxAgentOps
    /\ agOps' = agOps + 1
    /\ agLast' = [op |-> op, res |-> res]

\* lines 212-221, 260-269, 296-305, 330-339 and the catch blocks: how a failed
\* call is reported
ErrorToast(res) ==
    IF res = "setup" THEN [title |-> "Database Setup Required", variant |-> "destructive"]
    ELSE [title |-> "Error", variant |-> "destructive"]

\* variant: the list is updated whatever the call returned
ListAfter_Optimistic(res, list, old) == list

\* the list set by setAgents, which is reached only when the call returned no error
ListAfter(res, list, old) == IF res = "ok" THEN list ELSE old

\* the user types in the create or edit dialog
EditForm(name, type) ==
    /\ agCalls = {}
    /\ UNCHANGED <<agCalls, dashAgents, agTwice>>
    /\ agForm # [name |-> name, strategy_type |-> type]
    /\ agForm' = [name |-> name, strategy_type |-> type]
    /\ UNCHANGED <<agentRows, agentList, agSelected, agToast, agLast, agCreated, agOps>>
    /\ UNCHANGED <<orderVars, priceVars, metricVars, aiVars, marketVars, trackerVars, acVars, quoteVars>>

\* lines 375-390: openEditDialog(agent)
OpenEditDialog(k) ==
    /\ agCalls = {}
    /\ UNCHANGED <<agCalls, dashAgents, agTwice>>
    /\ k \in DOMAIN agentList
    /\ agSelected # Some(agentList[k])
    /\ agSelected' = Some(agentList[k])
    /\ agForm' = [name |-> agentList[k].name, strategy_type |-> agentList[k].strategy_type]
    /\ UNCHANGED <<agentRows, agentList, agToast, agLast, agCreated, agOps>>
    /\ UNCHANGED <<orderVars, priceVars, metricVars, aiVars, marketVars, trackerVars, acVars, quoteVars>>

\* lines 172-238: createAgent
CreateAgent(res) ==
    /\ agCalls = {}
    /\ UNCHANGED <<agCalls, dashAgents, agTwice>>
    /\ agCreated < MaxAgents
    /\ IF Trim(agForm.name) = "" \/ agForm.strategy_type = ""
       THEN /\ AgentCall("create", "invalid")
            /\ agToast' = Some([title |-> "Validation Error", variant |-> "destructive"])
            /\ UNCHANGED <<agentRows, agentList, agForm, agCreated>>
       ELSE LET data == [id |-> <<"a1", "a2", "a3", "a4">>[agCreated + 1], name |-> agForm.name,
                         strategy_type |-> agForm.strategy_type, status |-> "inactive"]
            IN  /\ AgentCall("create", res)
                /\ agentList' = ListAfter(res, <<data>> \o agentList, agentList)
                /\ IF res = "ok"
                   THEN /\ agentRows' = agentRows \cup {data}
                        /\ agCreated' = agCreated + 1
                        /\ agForm' = BlankForm
                        /\ agToast' = Some([title |-> "Success", variant |-> "default"])
                   ELSE /\ agToast' = Some(ErrorToast(res))
                        /\ UNCHANGED <<agentRows, agCreated, agForm>>
    /\ UNCHANGED agSelected
    /\ UNCHANGED <<orderVars, priceVars, metricVars, aiVars, marketVars, trackerVars, acVars, quoteVars>>

\* lines 240-290: updateAgent; the updated row comes back from .select().single(),
\* which returns an error when no row has the id
UpdateAgent(reply) ==
    /\ agCalls = {}
    /\ UNCHANGED <<agCalls, dashAgents, agTwice>>
    /\ IF agSelected = NULL
       THEN /\ AgentCall("update", "none")
            /\ UNCHANGED <<agentRows, agentList, agForm, agSelected, agToast>>
       ELSE LET old == agSelected[1]
                stored == {r \in agentRows : r.id = old.id}
                res == IF reply = "ok" /\ stored = {} THEN "error" ELSE reply
                data == [(CHOOSE r \in stored \cup {old} : stored # {} => r \in stored)
                            EXCEPT !.name = agForm.name,
                                   !.strategy_type = agForm.strategy_type]
            IN  /\ AgentCall("update", res)
                /\ agentList' = ListAfter(res, [k \in DOMAIN agentList |->
                                 IF agentList[k].id = old.id THEN data ELSE agentList[k]], agentList)
                /\ IF res = "ok"
                   THEN /\ agentRows' = {IF r.id = old.id THEN data ELSE r : r \in agentRows}
                        /\ agSelected' = NULL
                        /\ agForm' = BlankForm
                        /\ agToast' = Some([title |-> "Success", variant |-> "default"])
                   ELSE /\ agToast' = Some(ErrorToast(res))
                        /\ UNCHANGED <<agentRows, agSelected, agForm>>
    /\ UNCHANGED agCreated
    /\ UNCHANGED <<orderVars, priceVars, metricVars, aiVars, marketVars, trackerVars, acVars, quoteVars>>

\* lines 292-322: deleteAgent(agentId) of a listed agent; the rows that reference
\* the agent go with it (ON DELETE CASCADE, 01-create-tables.sql lines 51 and 66)
DeleteAgent(k, res) ==
    /\ agCalls = {}
    /\ UNCHANGED <<agCalls, dashAgents, agTwice>>
    /\ k \in DOMAIN agentList
    /\ AgentCall("delete", res)
    /\ agentList' = ListAfter(res, SelectSeq(agentList, LAMBDA a : a.id # agentList[k].id), agentList)
    /\ IF res = "ok"
       THEN /\ agentRows' = {r \in agentRows : r.id # agentList[k].id}
            /\ positions' = SelectSeq(positions, LAMBDA p : p.agent_id # agentList[k].id)
            /\ orders' = SelectSeq(orders, LAMBDA o : o.agent_id # agentList[k].id)
            /\ agToast' = Some([title |-> "Success", variant |-> "default"])
       ELSE /\ agToast' = Some(ErrorToast(res))
            /\ UNCHANGED <<agentRows, positions, orders>>
    /\ UNCHANGED <<agForm, agSelected, agCreated>>
    /\ UNCHANGED <<pc, call, form, isLoading, toasts, shown, trail, crashed>>
    /\ UNCHANGED <<priceVars, metricVars, aiVars, marketVars, trackerVars, acVars, quoteVars>>

\* the status stored for the agent id ("" when the table has no such row)
RowStatus(id) ==
    IF \E r \in agentRows : r.id = id THEN (CHOOSE r \in agentRows : r.id = id).status ELSE ""

\* the run of toggles after a successful toggleAgentStatus(id, currentStatus): it goes
\* on when the call was given the stored status of the agent toggled last
Toggled(id, currentStatus) ==
    IF currentStatus # RowStatus(id) THEN [id |-> "", before |-> "", n |-> 0]
    ELSE IF agTwice.id = id /\ agTwice.n = 1 THEN [agTwice EXCEPT !.n = 2]
    ELSE [id |-> id, before |-> currentStatus, n |-> 1]

\* lines 324-356: toggleAgentStatus(agentId, currentStatus) of a listed agent
ToggleAgentStatus(k, res) ==
    /\ agCalls = {}
    /\ UNCHANGED <<agCalls, dashAgents>>
    /\ k \in DOMAIN agentList
    /\ agTwice' = IF res = "ok" THEN Toggled(agentList[k].id, agentList[k].status) ELSE agTwice
    /\ LET newStatus == IF agentList[k].status = "active" THEN "inactive" ELSE "active"
       IN  /\ AgentCall("toggle", res)
           /\ agentList' = ListAfter(res, [j \in DOMAIN agentList |->
                            IF agentList[j].id = agentList[k].id
                            THEN [agentList[j] EXCEPT !.status = newStatus]
                            ELSE agentList[j]], agentList)
           /\ IF res = "ok"
              THEN /\ agentRows' = {IF r.id = agentList[k].id
                                    THEN [r EXCEPT !.status = newStatus] ELSE r : r \in agentRows}
                   /\ agToast' = Some([title |-> "Success", variant |-> "default"])
              ELSE /\ agToast' = Some(ErrorToast(res))
                   /\ UNCHANGED agentRows
    /\ UNCHANGED <<agForm, agSelected, agCreated>>
    /\ UNCHANGED <<orderVars, priceVars, metricVars, aiVars, marketVars, trackerVars, acVars, quoteVars>>

\* a handler is started while others may be waiting for their reply: createAgent
\* with the form (lines 172-206; its button is disabled while a create is in flight
\* or the form is incomplete, line 576), deleteAgent (line 292) or toggleAgentStatus
\* (lines 324-325) of the listed agent k. The call keeps the agents of its render.
AgentStart(op, k) ==
    /\ agOps < MaxAgentOps
    /\ agOps' = agOps + 1
    /\ IF op = "create"
       THEN /\ agCreated < MaxAgents
            /\ \A c \in agCalls : c.op # "create"
            /\ Trim(agForm.name) # "" /\ agForm.strategy_type # ""
            /\ agCalls' = agCalls \cup
                  {[n |-> agOps + 1, op |-> op, id |-> "", name |-> agForm.name,
                    strategy_type |-> agForm.strategy_type, status |-> "inactive",
                    agents |-> agentList]}
       ELSE /\ k \in DOMAIN agentList
            /\ agCalls' = agCalls \cup
                  {[n |-> agOps + 1, op |-> op, id |-> agentList[k].id, name |-> agentList[k].name,
                    strategy_type |-> agentList[k].strategy_type,
                    status |-> IF agentList[k].status = "active" THEN "inactive" ELSE "active",
                    agents |-> agentList]}
    /\ UNCHANGED <<agentRows, agentList, agForm, agSelected, agToast, agLast, agCreated,
                   dashAgents, agTwice>>
    /\ UNCHANGED <<orderVars, priceVars, metricVars, aiVars, marketVars, trackerVars, acVars, quoteVars>>

\* the database reply of a started call arrives: the table is changed when the call
\* succeeded, and setAgents is given the list computed from the agents the call was
\* started with (lines 224, 308, 342)
AgentReply(c, res) ==
    /\ c \in agCalls
    /\ agCalls' = agCalls \ {c}
    /\ agLast' = [op |-> c.op, res |-> res]
    /\ LET data == [id |-> <<"a1", "a2", "a3", "a4">>[agCreated + 1], name |-> c.name,
                    strategy_type |-> c.strategy_type, status |-> "inactive"]
       IN  /\ agentList' = ListAfter(res,
                 CASE c.op = "create" -> <<data>> \o c.agents
                   [] c.op = "delete" -> SelectSeq(c.agents, LAMBDA a : a.id # c.id)
                   [] OTHER -> [j \in DOMAIN c.agents |->
                                  IF c.agents[j].id = c.id
                                  THEN [c.agents[j] EXCEPT !.status = c.status]
                                  ELSE c.agents[j]],
                 agentList)
           /\ agentRows' =
                 IF res # "ok" THEN agentRows
                 ELSE CASE c.op = "create" -> agentRows \cup {data}
                        [] c.op = "delete" -> {r \in agentRows : r.id # c.id}
                        [] OTHER -> {IF r.id = c.id THEN [r EXCEPT !.status = c.status] ELSE r :
                                        r \in agentRows}
    /\ agCreated' = IF res = "ok" /\ c.op = "create" THEN agCreated + 1 ELSE agCreated
    /\ agForm' = IF res = "ok" /\ c.op = "create" THEN BlankForm ELSE agForm
    /\ agToast' = IF res = "ok" THEN Some([title |-> "Success", variant |-> "default"])
                  ELSE Some(ErrorToast(res))
    /\ positions' = IF res = "ok" /\ c.op = "delete"
                    THEN SelectSeq(positions, LAMBDA p : p.agent_id # c.id) ELSE positions
    /\ orders' = IF res = "ok" /\ c.op = "delete"
                 THEN SelectSeq(orders, LAMBDA o : o.agent_id # c.id) ELSE orders
    /\ agTwice' = IF res = "ok" /\ c.op = "toggle"
                  THEN Toggled(c.id, c.agents[CHOOSE j \in DOMAIN c.agents :
                                                     c.agents[j].id = c.id].status)
                  ELSE agTwice
    /\ UNCHANGED <<agSelected, agOps, dashAgents>>
    /\ UNCHANGED <<pc, call, form, isLoading, toasts, shown, trail, crashed>>
    /\ UNCHANGED <<priceVars, metricVars, aiVars, marketVars, trackerVars, acVars, quoteVars>>

\* trading-dashboard.tsx lines 152-172: toggleAgentStatus(agentId, currentStatus) of
\* an agent of the dashboard's list
DashToggleAgentStatus(k, res) ==
    /\ k \in DOMAIN dashAgents
    /\ LET newStatus == IF dashAgents[k].status = "active" THEN "inactive" ELSE "active"
       IN  /\ AgentCall("dashboard toggle", res)
           /\ IF res = "ok"
              THEN /\ agentRows' = {IF r.id = dashAgents[k].id
                                    THEN [r EXCEPT !.status = newStatus] ELSE r : r \in agentRows}
                   /\ dashAgents' = [j \in DOMAIN dashAgents |->
                                        IF dashAgents[j].id = dashAgents[k].id
                                        THEN [dashAgents[j] EXCEPT !.status = newStatus]
                                        ELSE dashAgents[j]]
                   /\ agToast' = Some([title |-> "Success", variant |-> "default"])
                   /\ agTwice' = Toggled(dashAgents[k].id, dashAgents[k].status)
              ELSE /\ agToast' = Some([title |-> "Error", variant |-> "destructive"])
                   /\ UNCHANGED <<agentRows, dashAgents, agTwice>>
    /\ UNCHANGED <<agentList, agForm, agSelected, agCreated, agCalls>>
    /\ UNCHANGED <<orderVars, priceVars, metricVars, aiVars, marketVars, trackerVars, acVars, quoteVars>>

(* --------------------------- live-data route ---------------------------- *)
\* lines 74-87: the price table; an unknown symbol gets base 1000, range 50
StockInfo(symbol) ==
    CASE symbol = "RELIANCE" -> [base |-> 2470, range |-> 50]
      [] symbol = "TCS" -> [base |-> 3675, range |-> 80]
      [] symbol = "ITC" -> [base |-> 425, range |-> 15]
      [] OTHER -> [base |-> 1000, range |-> 50]

\* symbols asked for: three tracked ones and one that is not in the table
QuoteSymbols == {"RELIANCE", "TCS", "ITC", "ZZZ"}

\* outcomes of Math.random(), in tenths: 0, 0.5 and 0.9
Draws == {0, 5, 9}

\* lines 72-101: fetchSymbolData; r[1..5] are the five draws in the order they are
\* made, and prices and change are in tenths of a rupee
FetchSymbolData(symbol, r) ==
    LET stockInfo == StockInfo(symbol)
        basePrice == 10 * stockInfo.base + (r[1] - 5) * stockInfo.range
        change == (r[2] - 5) * 20
    IN  [symbol |-> symbol,
         open_price |-> basePrice - change \div 2,
         high_price |-> basePrice + r[3] * 10,
         low_price |-> basePrice - r[4] * 10,
         close_price |-> basePrice + change,
         volume |-> (r[5] * 2000000) \div 10 + 100000,
         change |-> change]

QuoteInit == quote = NULL

\* lines 19-28: GET with a symbol answers with the quote of fetchSymbolData
LiveDataGet(symbol, r) ==
    /\ quote' = Some(FetchSymbolData(symbol, r))
    /\ UNCHANGED <<orderVars, priceVars, metricVars, aiVars, marketVars, trackerVars,
                   agentVars, acVars>>

(* -------------------------- AgentCollaboration -------------------------- *)
CollabInit ==
    /\ acFetch = [f \in {"agents", "collaborations"} |-> "unmounted"]
    /\ acDone = FALSE
    /\ acLoading = TRUE
    /\ acData = [agents |-> <<>>, collaborations |-> 0]
    /\ acEvents = 0

\* lines 76-97: the component mounts (isLoading starts true, line 62) and its effect
\* calls fetchData: fetchAgents and fetchCollaborations send their selects, and
\* fetchMessages returns at once, the agents of the first render being empty (line 154)
CollabMount ==
    /\ acFetch["agents"] = "unmounted"
    /\ acFetch' = [f \in {"agents", "collaborations"} |-> "pending"]
    /\ UNCHANGED <<acDone, acLoading, acData, acEvents>>
    /\ UNCHANGED <<orderVars, priceVars, metricVars, aiVars, marketVars, trackerVars, agentVars, quoteVars>>

\* lines 116-151: the reply of fetchAgents (rows = the agents returned) or of
\* fetchCollaborations (rows = the number of collaborations returned). A schema-cache
\* error sets the empty list, another error is thrown and taken up by
\* Promise.allSettled (line 101), which ends fetchData once both have settled.
\* No path sets isLoading.
CollabFetchReply(f, res, rows) ==
    /\ acFetch[f] = "pending"
    /\ acFetch' = [acFetch EXCEPT ![f] = res]
    /\ acData' = CASE res = "ok" -> [acData EXCEPT ![f] = rows]
                   [] res = "schema" -> [acData EXCEPT ![f] = IF f = "agents" THEN <<>> ELSE 0]
                   [] OTHER -> acData
    /\ acDone' = (acDone \/ \A g \in {"agents", "collaborations"} : acFetch'[g] # "pending")
    /\ UNCHANGED <<acLoading, acEvents>>
    /\ UNCHANGED <<orderVars, priceVars, metricVars, aiVars, marketVars, trackerVars, agentVars, quoteVars>>

\* lines 80-91: a change of agent_collaborations reaches the subscription, which
\* calls fetchCollaborations again
CollabEvent ==
    /\ acDone
    /\ acFetch["collaborations"] # "pending"
    /\ acEvents < MaxEvents
    /\ acEvents' = acEvents + 1
    /\ acFetch' = [acFetch EXCEPT !["collaborations"] = "pending"]
    /\ UNCHANGED <<acDone, acLoading, acData>>
    /\ UNCHANGED <<orderVars, priceVars, metricVars, aiVars, marketVars, trackerVars, agentVars, quoteVars>>

(* -------------------------- RealTimeMarketData -------------------------- *)
MarketInit ==
    /\ rtMounted = FALSE
    /\ rtTimers = 0
    /\ rtCallback = 0
    /\ rtOpen = {}
    /\ rtLog = <<>>
    /\ rtConnected = FALSE
    /\ rtLoading = FALSE
    /\ rtToast = "none"
    /\ dashRenders = 0
    /\ dashPositions = [rows |-> <<>>, list |-> <<>>]

\* room for one more fetch under the cap
FetchRoom == Len(rtLog) < MaxFetches

\* fetchMarketData is called (lines 32-35): setIsLoading(true) and the GET is sent
StartFetch(cause, callback) ==
    /\ rtLog' = Append(rtLog, [cause |-> cause, callback |-> callback])
    /\ rtOpen' = rtOpen \cup {Len(rtLog) + 1}
    /\ rtLoading' = TRUE

\* useEffect, lines 77-88, run for the fetchMarketData of the current render: the
\* fetch it starts and the interval it sets
RunEffect(cause) ==
    /\ rtCallback' = dashRenders
    /\ rtTimers' = 1
    /\ StartFetch(cause, dashRenders)

\* the market tab is opened: RealTimeMarketData mounts and its effect runs
MarketMount ==
    /\ UNCHANGED dashPositions
    /\ ~rtMounted
    /\ FetchRoom
    /\ rtMounted' = TRUE
    /\ RunEffect("mount")
    /\ UNCHANGED <<rtConnected, rtToast, dashRenders>>
    /\ UNCHANGED <<orderVars, priceVars, metricVars, aiVars, trackerVars, agentVars, acVars, quoteVars>>

\* the market tab is left: the component unmounts, the cleanup clears the interval
\* (line 87) and the component state is dropped
MarketUnmount ==
    /\ UNCHANGED dashPositions
    /\ rtMounted
    /\ rtMounted' = FALSE
    /\ rtTimers' = 0
    /\ rtConnected' = FALSE
    /\ rtLoading' = FALSE
    /\ UNCHANGED <<rtCallback, rtOpen, rtLog, rtToast, dashRenders>>
    /\ UNCHANGED <<orderVars, priceVars, metricVars, aiVars, trackerVars, agentVars, acVars, quoteVars>>

\* lines 82-85: the interval fires: fetchMarketData and updatePortfolioPrices (lines
\* 59-75: the update-prices POST, and a toast when the route answers success at once)
MarketTick(res) ==
    /\ UNCHANGED dashPositions
    /\ rtMounted
    /\ rtTimers > 0
    /\ FetchRoom
    /\ StartFetch("tick", rtCallback)
    /\ UpdatePricesBegin(res)
    /\ rtToast' = IF upResponse' = "No positions to update" THEN "Portfolio Updated" ELSE rtToast
    /\ UNCHANGED <<rtMounted, rtTimers, rtCallback, rtConnected, dashRenders>>
    /\ UNCHANGED <<orderVars, metricVars, aiVars, trackerVars, agentVars, acVars, quoteVars>>

\* lines 122-124: the Refresh button, disabled while isLoading
MarketRefresh ==
    /\ UNCHANGED dashPositions
    /\ rtMounted
    /\ ~rtLoading
    /\ FetchRoom
    /\ StartFetch("click", rtCallback)
    /\ UNCHANGED <<rtMounted, rtTimers, rtCallback, rtConnected, rtToast, dashRenders>>
    /\ UNCHANGED <<orderVars, priceVars, metricVars, aiVars, trackerVars, agentVars, acVars, quoteVars>>

\* trading-dashboard.tsx lines 485-498: onDataUpdate is an inline arrow function, a
\* new function on every render of the dashboard, so fetchMarketData (useCallback on
\* [onDataUpdate], line 57) and with it the effect's dependencies (line 88) change
CallbackChanged(before, after) == before # after

\* lines 36-56: the reply of fetch i. On success the component state is set and
\* onDataUpdate stores the data in the dashboard (its setMarketData with a new
\* array), the dashboard renders again, and when that changed the callback the
\* effect of the mounted component is cleaned up and run again. On a failure
\* isConnected is cleared and the Connection Error toast is shown.
MarketFetchReply(i, res) ==
    /\ UNCHANGED dashPositions
    /\ i \in rtOpen
    /\ IF res = "ok"
       THEN /\ dashRenders' = dashRenders + 1
            /\ rtConnected' = rtMounted
            /\ UNCHANGED rtToast
            /\ IF rtMounted /\ CallbackChanged(rtCallback, dashRenders + 1)
               THEN /\ FetchRoom
                    /\ rtCallback' = dashRenders + 1
                    /\ rtTimers' = 1
                    /\ rtLog' = Append(rtLog, [cause |-> "rerender", callback |-> dashRenders + 1])
                    /\ rtOpen' = (rtOpen \ {i}) \cup {Len(rtLog) + 1}
                    /\ rtLoading' = TRUE
               ELSE /\ rtOpen' = rtOpen \ {i}
                    /\ rtLoading' = FALSE
                    /\ UNCHANGED <<rtCallback, rtTimers, rtLog>>
       ELSE /\ rtOpen' = rtOpen \ {i}
            /\ rtConnected' = FALSE
            /\ rtToast' = "Connection Error"
            /\ rtLoading' = FALSE
            /\ UNCHANGED <<rtCallback, rtTimers, rtLog, dashRenders>>
    /\ UNCHANGED rtMounted
    /\ UNCHANGED <<orderVars, priceVars, metricVars, aiVars, trackerVars, agentVars, acVars, quoteVars>>

(* one session, every database call succeeds: the fills and their arithmetic *)
FillForms ==
    {FormOf("a1", "TCS", sd, q) : sd \in Sides, q \in {"1", "2"}}
        \cup {FormOf("a2", "TCS", "buy", "1"), FormOf("a1", "XYZ", "buy", "1")}

Init == OrderInit /\ PriceInit /\ MetricInit /\ AiInit /\ MarketInit /\ TrackerInit /\ AgentInit /\ CollabInit /\ QuoteInit
Next == OrderNext({"c1"}, FillForms, FillPrices, {"ok"}, MaxFills)
Spec == Init /\ [][Next]_vars

(* one session, database calls may fail and the page may be closed mid-call *)
FailForms ==
    {FormOf("a1", "TCS", sd, "1") : sd \in Sides} \cup {FormOf("a1", "TCS", "buy", "")}

NextFail ==
    \/ OrderNext({"c1"}, FailForms, {500}, Replies, MaxFailOrders)
    \/ \E c \in {"c1"} : Crash(c)
    \/ \E agent \in {"", "a1"}, k \in DOMAIN Recommendations, res \in Replies :
          ExecuteRebalance("c1", agent, Recommendations[k], res, MaxFailOrders)
SpecFail == Init /\ [][NextFail]_vars

(* one session submitting the form with every combination of empty fields and
   with quantities that are not positive *)
AnyForms ==
    {FormOf(a, sy, sd, q) : a \in {"", "a1"}, sy \in {"", "TCS"}, sd \in Sides,
                            q \in {"", "1", "0", "-1"}}

NextForm == OrderNext({"c1"}, AnyForms, FillPrices, {"ok"}, MaxFormOrders)
SpecForm == Init /\ [][NextForm]_vars

(* two sessions placing orders at the same time *)
ConcForms == {FormOf("a1", "TCS", sd, "1") : sd \in Sides}

NextConc == OrderNext(Clients, ConcForms, FillPrices, {"ok"}, MaxOrders)
SpecConc == Init /\ [][NextConc]_vars

(* one session placing orders while update-prices requests run *)
PriceForms ==
    {FormOf("a1", "TCS", "buy", "1"), FormOf("a1", "TCS", "sell", "1"),
     FormOf("a2", "TCS", "sell", "2"), FormOf("a1", "XYZ", "buy", "1")}

NextPrices ==
    \/ OrderNext({"c1"}, PriceForms, {500}, {"ok"}, MaxPricedOrders)
    \/ PricesNext({"ok", "error"})
SpecPrices == Init /\ [][NextPrices]_vars

(* the tracker run against stored positions of every sampled shape *)
InitMetrics ==
    /\ \E n \in 0..MaxRows : \E f \in [1..n -> FieldSamples] :
          OrderInitWith([k \in 1..n |-> SampleRow(k, f[k])])
    /\ PriceInit /\ MetricInit /\ AiInit /\ MarketInit /\ TrackerInit /\ AgentInit /\ CollabInit /\ QuoteInit
\* the mounted tracker over stored positions whose cached values are set
PolledSamples == {f \in FieldSamples : f.market_value # NULL /\ f.unrealized_pnl # NULL}
InitTracker ==
    /\ \E n \in 0..MaxTrackerRows : \E f \in [1..n -> PolledSamples] :
          OrderInitWith([k \in 1..n |-> SampleRow(k, f[k])])
    /\ PriceInit /\ MetricInit /\ AiInit /\ MarketInit /\ TrackerInit /\ AgentInit /\ CollabInit /\ QuoteInit
NextMetrics == \E userId \in Users, res \in {"ok", "error"} : FetchPortfolioMetrics(userId, res)
SpecMetrics == InitMetrics /\ [][NextMetrics]_vars

(* the tracker and the dashboard, both reading the stored positions *)
NextViews ==
    \/ \E userId \in Users, res \in {"ok", "error"} : FetchPortfolioMetrics(userId, res)
    \/ \E userId \in Users, res \in {"ok", "error"} : FetchPositions(userId, res)
SpecViews == InitMetrics /\ [][NextViews]_vars

(* requests to the AI routes *)
NextAI == AiNext
SpecAI == Init /\ [][NextAI]_vars

(* a mounted tracker: mounts, userId changes, timer ticks, unmounts *)
NextTracker ==
    \/ \E userId \in Users, res \in {"ok", "error"} : TrackerMount(userId, res)
    \/ \E userId \in Users, res \in {"ok", "error"} : TrackerUserIdChange(userId, res)
    \/ \E t \in trTimers, res \in {"ok", "error"} : TrackerTick(t, res)
    \/ TrackerUnmount
SpecTracker == InitTracker /\ [][NextTracker]_vars

(* one session of AgentManagement, one handler at a time *)
NextAgents ==
    \/ \E name \in {"", " ", "A", "B"}, type \in {"", "momentum"} : EditForm(name, type)
    \/ \E k \in DOMAIN agentList : OpenEditDialog(k)
    \/ \E res \in AgentReplies : CreateAgent(res)
    \/ \E res \in AgentReplies : UpdateAgent(res)
    \/ \E k \in DOMAIN agentList, res \in AgentReplies : DeleteAgent(k, res)
    \/ \E k \in DOMAIN agentList, res \in AgentReplies : ToggleAgentStatus(k, res)
SpecAgents == Init /\ [][NextAgents]_vars

(* the live-data route asked for one symbol *)
NextQuotes == \E symbol \in QuoteSymbols, r \in [1..5 -> Draws] : LiveDataGet(symbol, r)
SpecQuotes == Init /\ [][NextQuotes]_vars

(* both toggles over agents stored with any status of the schema *)
\* 01-create-tables.sql line 20: the values of trading_agents.status
Statuses == {"active", "inactive", "paused"}
\* the table holds n agents, and both components have loaded them
InitToggle ==
    /\ OrderInit /\ PriceInit /\ MetricInit /\ AiInit /\ MarketInit /\ TrackerInit /\ CollabInit /\ QuoteInit
    /\ \E n \in 1..MaxAgents : \E st \in [1..n -> Statuses] :
          /\ agentList = [k \in 1..n |-> [id |-> <<"a1", "a2", "a3", "a4">>[k], name |-> "A",
                                          strategy_type |-> "momentum", status |-> st[k]]]
          /\ agCreated = n
    /\ agentRows = {agentList[k] : k \in DOMAIN agentList}
    /\ dashAgents = agentList
    /\ agForm = BlankForm
    /\ agSelected = NULL
    /\ agToast = NULL
    /\ agLast = [op |-> "none", res |-> "none"]
    /\ agOps = 0
    /\ agCalls = {}
    /\ agTwice = [id |-> "", before |-> "", n |-> 0]
NextToggle ==
    \/ \E k \in DOMAIN agentList, res \in AgentReplies : ToggleAgentStatus(k, res)
    \/ \E k \in DOMAIN dashAgents, res \in {"ok", "error"} : DashToggleAgentStatus(k, res)
SpecToggle == InitToggle /\ [][NextToggle]_vars

(* one session rebalancing, order by order or all at once; inserts may fail *)
NextRebalance ==
    \/ \E agent \in {"", "a1"}, k \in DOMAIN Recommendations, res \in Replies :
          ExecuteRebalance("c1", agent, Recommendations[k], res, MaxRebalanceOrders)
    \/ \E agent \in {"", "a1"}, recs \in {<<>>, Recommendations} :
          \E replies \in [DOMAIN recs -> Replies] :
             ExecuteAllRebalanceOrders("c1", agent, recs, replies, MaxRebalanceOrders)
SpecRebalance == Init /\ [][NextRebalance]_vars

(* AgentManagement with calls that overlap *)
NextOverlap ==
    \/ \E name \in {"A", "B"} : EditForm(name, "momentum")
    \/ \E op \in {"create", "delete", "toggle"}, k \in 1..MaxAgents : AgentStart(op, k)
    \/ \E c \in agCalls, res \in AgentReplies : AgentReply(c, res)
SpecOverlap == Init /\ [][NextOverlap]_vars

(* a mounted AgentCollaboration component; every reply arrives in the end *)
NextCollab ==
    \/ CollabMount
    \/ \E res \in Replies, rows \in {<<>>, <<"a1">>, <<"a1", "a2">>} :
          CollabFetchReply("agents", res, rows)
    \/ \E res \in Replies, rows \in 0..MaxAiRows : CollabFetchReply("collaborations", res, rows)
    \/ CollabEvent
SpecCollab == Init /\ [][NextCollab]_vars /\ WF_vars(NextCollab)

(* the market tab of the dashboard *)
NextMarket ==
    \/ MarketMount
    \/ MarketUnmount
    \/ \E res \in {"ok", "error"} : MarketTick(res)
    \/ MarketRefresh
    \/ \E i \in rtOpen, res \in {"ok", "error"} : MarketFetchReply(i, res)
SpecMarket == Init /\ [][NextMarket]_vars

(* ============================ properties ================================ *)
Range(seq) == {seq[i] : i \in DOMAIN seq}

AllIdle == \A c \in Clients : pc[c] = "idle"

\* ids of the orders whose position write took effect
AppliedIds == UNION {{trail[p][k].orderId : k \in DOMAIN trail[p]} : p \in Pairs}

\* sum of the signed quantities of the position writes that took effect on a pair
AppliedSum(p) ==
    LET t == trail[p]
    IN  SumOver([k \in DOMAIN t |-> IF t[k].side = "buy" THEN t[k].qty ELSE -t[k].qty],
                DOMAIN t)

\* a fill all of whose database calls succeeded, with no other call on its pair meanwhile
Undisturbed(f) == f.clean /\ f.solo

\* C1: on a pair without a position, after two undisturbed fills in the same
\* direction of q1 at p1 and q2 at p2, the pair has one position row whose quantity is
\* the signed q1 + q2 and whose average price is (p1*q1 + p2*q2) / (q1 + q2).
C1_WeightedAverage ==
    \A p \in Pairs :
        LET t == trail[p] IN
        (/\ Len(t) = 2
         /\ t[1].side = t[2].side
         /\ Undisturbed(t[1]) /\ Undisturbed(t[2]))
        => LET ids == Matching(positions, p[1], p[2])
               sgn == IF t[1].side = "buy" THEN 1 ELSE -1
           IN  /\ Cardinality(ids) = 1
               /\ \A i \in ids :
                     /\ positions[i].quantity = sgn * (t[1].qty + t[2].qty)
                     /\ positions[i].avg_price =
                           Rat(t[1].price * t[1].qty + t[2].price * t[2].qty,
                               t[1].qty + t[2].qty)

\* two sells of different sizes at different prices have been filled on a fresh pair
C1_Witness ==
    \E p \in Pairs :
        /\ Len(trail[p]) = 2
        /\ trail[p][1].side = "sell" /\ trail[p][2].side = "sell"
        /\ trail[p][1].qty # trail[p][2].qty
        /\ trail[p][1].price # trail[p][2].price
        /\ Undisturbed(trail[p][1]) /\ Undisturbed(trail[p][2])

\* no order row of the pair lies strictly between the order rows i and j
NoOrderBetween(p, i, j) ==
    \A k \in DOMAIN orders :
        (i < k /\ k < j) => ~(orders[k].agent_id = p[1] /\ orders[k].symbol = p[2])

\* an undisturbed buy of n directly followed by an undisturbed sell of n on pair p,
\* as the fills k and k + 1 of the pair
BuyThenSell(p, k) ==
    LET t == trail[p] IN
    /\ k \in DOMAIN t /\ k + 1 \in DOMAIN t
    /\ t[k].side = "buy" /\ t[k + 1].side = "sell"
    /\ t[k].qty = t[k + 1].qty
    /\ Undisturbed(t[k]) /\ Undisturbed(t[k + 1])
    /\ NoOrderBetween(p, t[k].orderId, t[k + 1].orderId)

\* C2: a buy of n followed by a sell of n, with no other order on the pair in
\* between, leaves the stored quantity of the pair at its value before the buy.
C2_BuySellRoundTrip ==
    \A p \in Pairs : \A k \in DOMAIN trail[p] :
        BuyThenSell(p, k)
        => /\ trail[p][k + 1].post = trail[p][k].pre
           /\ (k + 1 = Len(trail[p])
                 => StoredQty(positions, p[1], p[2]) = trail[p][k].pre)

\* a buy-then-sell round trip has been made on a position that was not flat
C2_Witness ==
    \E p \in Pairs : \E k \in DOMAIN trail[p] :
        /\ BuyThenSell(p, k)
        /\ trail[p][k].pre # 0
        /\ k + 1 = Len(trail[p])

\* C3: whenever no executeOrder call is in progress, the stored quantity of every
\* pair equals the sum of the signed quantities of its filled orders.
C3_QuantityMatchesOrders ==
    AllIdle =>
        \A p \in Pairs : StoredQty(positions, p[1], p[2]) = SumFilled(orders, p[1], p[2])

\* C4: every stored position has market_value = quantity * current_price
\* (quantity * average_price when current_price is null).
C4_MarketValueFresh ==
    \A i \in DOMAIN positions :
        LET r == positions[i] IN
        r.market_value =
            Some(r.quantity * (IF r.current_price # NULL
                               THEN r.current_price[1]
                               ELSE Num(r.average_price)))

\* a notification telling the user that the order failed
FailureNotified(ts) ==
    "Failed to place order" \in Range(ts) \/ "Database Setup Required" \in Range(ts)

\* C5: a call of executeOrder in which a database step failed ends with a failure
\* notification and without "Order Placed"; "Order Placed" is only shown when the
\* order row and the position row were both written.
C5_FailureIsReported ==
    [][\A c \in Clients :
          /\ (pc[c] = "insertOrder" /\ pc'[c] = "idle")
                => FailureNotified(toasts'[c]) /\ "Order Placed" \notin Range(toasts'[c])
          /\ (pc[c] = "refetch" /\ pc'[c] = "idle")
                => /\ call[c].failed
                        => /\ FailureNotified(toasts'[c])
                           /\ "Order Placed" \notin Range(toasts'[c])
                   /\ "Order Placed" \in Range(toasts'[c])
                        => call[c].orderId \in DOMAIN orders /\ call[c].posWritten]_vars

\* ids of the orders of executeOrder whose call is over without a position write
\* that took effect
DroppedIds ==
    {i \in DOMAIN orders :
        /\ orders[i].origin = "executeOrder"
        /\ i \notin AppliedIds
        /\ \A c \in Clients : ~(InFlight(c) /\ call[c].orderId = i)}

\* C6: an order whose call stopped between the order insert and the position write
\* stays in the table with status filled, no position carries its quantity, and no
\* later step changes that: the order rows are never changed or removed and a dropped
\* order stays dropped.
C6_DroppedOrderStays ==
    /\ [](\A i \in crashed : i \in DroppedIds /\ orders[i].status = "filled")
    /\ [](\A p \in Pairs : StoredQty(positions, p[1], p[2]) = AppliedSum(p))
    /\ [][/\ DroppedIds \subseteq DroppedIds'
          /\ \A i \in DOMAIN orders : i \in DOMAIN orders' /\ orders'[i] = orders[i]]_vars

\* a call was cut short after its order insert, and a later order on the same pair
\* has been filled since
C6_Witness ==
    \E i \in crashed : \E p \in Pairs : \E k \in DOMAIN trail[p] :
        /\ orders[i].agent_id = p[1] /\ orders[i].symbol = p[2]
        /\ trail[p][k].orderId > i
        /\ AllIdle

\* C7 as stated: every order row is stored with status filled.
C7_EveryOrderFilled ==
    \A i \in DOMAIN orders : orders[i].status = "filled"

\* C7 amended: the order rows of executeOrder are stored filled, the order rows of
\* executeRebalance are stored pending, and no row has another status.
C7_StatusByHandler ==
    \A i \in DOMAIN orders :
        orders[i].status = IF orders[i].origin = "executeOrder" THEN "filled" ELSE "pending"

\* the table holds an order of executeOrder and an order of executeRebalance
C7_Witness ==
    /\ \E i \in DOMAIN orders : orders[i].origin = "executeOrder"
    /\ \E i \in DOMAIN orders : orders[i].origin = "executeRebalance"

(* ------------------------- tracker metrics ------------------------------ *)
RECURSIVE RatSum(_)
RatSum(seq) == IF seq = <<>> THEN RatInt(0) ELSE RatAdd(Head(seq), RatSum(Tail(seq)))

\* sum of the stored market_value of the rows, a null counted as 0
StoredTotal(rows) == SumSeq([k \in DOMAIN rows |-> Num(rows[k].market_value)])

\* allocation of the reported positions whose stored market value is not zero
NonZeroAllocations(rows, reported) ==
    [k \in DOMAIN rows |->
        IF Num(rows[k].market_value) # 0 THEN reported[k].allocation ELSE RatInt(0)]

C9_TotalsMatchReported ==
    metrics # NULL =>
        LET m == metrics[1].m
        IN  /\ m.totalValue = SumSeq([k \in DOMAIN m.positions |-> m.positions[k].marketValue])
            /\ m.totalPnL = SumSeq([k \in DOMAIN m.positions |-> m.positions[k].unrealizedPnL])

(* ------------------------------ AI routes ------------------------------- *)
\* a request whose language-model call returned a text
Answered == aiText # NULL
Finished == aiPc = "idle"

\* the text as returned does not parse as JSON, or (generate-strategy) parses to an
\* object missing a required field
Malformed(route, text) ==
    \/ ~JsonParse(text).ok
    \/ /\ route = "generate-strategy"
       /\ JsonParse(text).value[1].kind = "object"
       /\ ~(RequiredFields \subseteq JsonParse(text).value[1].fields)

\* the text the route hands to JSON.parse does not parse, or (generate-strategy)
\* parses to a value missing a required field
Unusable(route, text) ==
    LET parsed == JsonParse(IF route = "generate-strategy" THEN CleanedText(text) ELSE text)
    IN  \/ ~parsed.ok
        \/ /\ route = "generate-strategy"
           /\ ~(parsed.value[1].kind = "object"
                  /\ RequiredFields \subseteq parsed.value[1].fields)

\* the outcome claimed for a malformed response: the fallback is the result, the
\* persistence step is reached, and only a failed insert of collaborate gives an
\* error response
FallbackOutcome ==
    /\ aiResult = Some(Fallback)
    /\ Finished =>
          /\ aiSaved # "none"
          /\ \/ aiResponse.status = "200" /\ aiResponse.result = Some(Fallback)
             \/ aiReq.route = "collaborate" /\ aiSaved = "no" /\ aiResponse.status = "500"

\* C10 (as stated): for every response text that does not parse as JSON (and for
\* generate-strategy every parsed object missing a required field) the route uses
\* its fallback, continues to persistence and success; the malformed response
\* alone never produces an error response.
C10_MalformedFallsBack ==
    (Answered /\ Malformed(aiReq.route, aiText[1])) => FallbackOutcome

\* C10 (amended): the same for every text that fails to parse as the route parses
\* it: adapt-strategy and collaborate parse the text as returned, generate-strategy
\* parses it with a leading ```json fence and a trailing ``` fence stripped.
C10_UnusableFallsBack ==
    (Answered /\ Unusable(aiReq.route, aiText[1])) => FallbackOutcome

\* generate-strategy has answered success with its fallback after an object missing a required field
C10_Witness ==
    /\ Answered /\ Finished
    /\ Unusable(aiReq.route, aiText[1])
    /\ aiReq.route = "generate-strategy"
    /\ aiText[1].body.kind = "object"
    /\ aiResponse.status = "200"
    /\ aiResponse.result = Some(Fallback)

(* ------------------------- form validation ------------------------------ *)
\* some required field of the form is empty
MissingInformationAtClick(f) == "" \in {f.agent, f.symbol, f.qty}

ClosingFill(p, k) ==
    /\ k \in DOMAIN trail[p]
    /\ Undisturbed(trail[p][k])
    /\ trail[p][k].pre # 0 /\ trail[p][k].post = 0

\* C12: a fill that brings an existing position to quantity 0 leaves its row in
\* the table with quantity 0 and average price 0 (an ordinary number, no division
\* by zero); the next fill on the pair updates that same row to its own signed
\* quantity and to an average price equal to its own fill price.
C12_FlatRowKept ==
    \A p \in Pairs : \A k \in DOMAIN trail[p] :
        ClosingFill(p, k) =>
            LET t == trail[p]
                ids == Matching(positions, p[1], p[2])
            IN  /\ Cardinality(ids) = 1
                /\ k = Len(t) =>
                      \A i \in ids : /\ positions[i].quantity = 0
                                     /\ positions[i].avg_price = RatInt(0)
                /\ (k + 1 = Len(t) /\ Undisturbed(t[k + 1])) =>
                      \A i \in ids :
                          /\ positions[i].quantity =
                                (IF t[k + 1].side = "buy" THEN t[k + 1].qty ELSE -t[k + 1].qty)
                          /\ positions[i].avg_price = RatInt(t[k + 1].price)

\* a position was closed and a later sell at another price reopened it short
C12_Witness ==
    \E p \in Pairs : \E k \in DOMAIN trail[p] :
        /\ ClosingFill(p, k)
        /\ k + 1 = Len(trail[p])
        /\ trail[p][k + 1].side = "sell"
        /\ trail[p][k + 1].price # trail[p][k].price
        /\ AllIdle

(* ------------------------- tracker, no positions ------------------------ *)
\* the user has no stored position with a non-zero quantity
NoOpenPosition(userId) ==
    ~\E i \in DOMAIN positions :
        AgentOwner(positions[i].agent_id) = userId /\ positions[i].quantity # 0

\* C13: after a fetch for a user without a position of non-zero quantity, or whose
\* query returned null, totalValue, totalPnL, totalPnLPercent, dayChange and
\* dayChangePercent are 0, the positions list is empty and the loading flag is false.
C13_NoPositionsZeroMetrics ==
    (metrics # NULL /\ (NoOpenPosition(metrics[1].userId) \/ metrics[1].rows = <<>>))
        => /\ metrics[1].m.totalValue = 0
           /\ metrics[1].m.totalPnL = 0
           /\ metrics[1].m.totalPnLPercent = RatInt(0)
           /\ metrics[1].m.dayChange = RatInt(0)
           /\ metrics[1].m.dayChangePercent = RatInt(0)
           /\ metrics[1].m.positions = <<>>
           /\ trackerLoading = FALSE

\* the user's only stored positions are flat ones with stored values, and a fetch was made
C13_Witness ==
    /\ metrics # NULL
    /\ metrics[1].userId = "u1"
    /\ NoOpenPosition("u1")
    /\ \E i \in DOMAIN positions :
          /\ AgentOwner(positions[i].agent_id) = "u1"
          /\ positions[i].market_value # NULL
          /\ positions[i].unrealized_pnl # NULL

(* ----------------------- update-prices, outcome ------------------------- *)
\* the step is the success response of an update-prices request into which no
\* order step fell
QuietSuccess ==
    /\ upPc = "rows" /\ upPc' = "idle"
    /\ upResponse' = "Portfolio prices updated"
    /\ upQuiet

\* C14: when an update-prices request that ran without a concurrent order answers
\* success, every position with a non-zero quantity whose symbol is in the market
\* data has current_price = the symbol's close price, market_value = quantity *
\* current_price and unrealized_pnl = quantity * (current_price - average_price).
C14_PricesApplied ==
    [][QuietSuccess =>
          \A i \in DOMAIN positions' :
              LET r == positions'[i] IN
              (r.quantity # 0 /\ r.symbol \in DOMAIN upMarket)
                  => /\ r.current_price = Some(upMarket[r.symbol])
                     /\ r.market_value = Some(r.quantity * upMarket[r.symbol])
                     /\ r.unrealized_pnl =
                           Some(r.quantity * (upMarket[r.symbol] - Num(r.average_price)))]_vars

(* ------------------------- one row per pair ----------------------------- *)
\* C15: portfolio_positions never holds more than one row for an (agent_id, symbol).
C15_OneRowPerPair ==
    \A p \in Pairs : Cardinality(Matching(positions, p[1], p[2])) <= 1

(* ------------------------ market data fetches --------------------------- *)
\* C16: RealTimeMarketData starts a fetch only on mount, on a timer tick or on a
\* Refresh click; a completed fetch never starts another one.
C16_FetchOnlyOnMountTickClick ==
    \A k \in DOMAIN rtLog : rtLog[k].cause \in {"mount", "tick", "click"}

(* --------------------------- tracker polling ---------------------------- *)
\* a step that starts a fetch of the tracker
TrackerFetchStarts == Len(trLog') = Len(trLog) + 1

\* C17: the tracker's effect fetches once on mount; a mounted tracker has exactly
\* one interval set, the one of its current userId, whatever intervals there were
\* before; an unmounted tracker has none, so no fetch starts while it is unmounted;
\* every fetch is the one of a mount, of a userId change or of a tick of an
\* interval that is set.
C17_OnePollingTimer ==
    [][ /\ Cardinality(trTimers') <= 1
        /\ trMounted' => \E t \in trTimers' : Some(t.userId) = trUserId'
        /\ ~trMounted' => trTimers' = {}
        /\ (~trMounted /\ trMounted') =>
              /\ TrackerFetchStarts
              /\ trLog'[Len(trLog')].cause = "mount"
        /\ TrackerFetchStarts =>
              /\ trMounted'
              /\ ~trMounted \/ trLog'[Len(trLog')].cause = "userId"
                    \/ \E t \in trTimers : t.userId = trLog'[Len(trLog')].userId
        /\ ~TrackerFetchStarts => trLog' = trLog
      ]_vars

\* a tracker mounted for u1 was switched to u2 and has ticked since
C17_Witness ==
    /\ trMounted
    /\ trUserId = Some("u2")
    /\ Len(trLog) >= 3
    /\ trLog[1] = [cause |-> "mount", userId |-> "u1"]
    /\ trLog[2] = [cause |-> "userId", userId |-> "u2"]
    /\ trLog[3] = [cause |-> "tick", userId |-> "u2"]

(* ----------------------------- agent list ------------------------------- *)
\* a step in which a handler of AgentManagement made its database call
AgentDbCall == agOps' = agOps + 1 /\ agLast'.res \in AgentReplies

\* the edit dialog is saved with the values the agent already has
UpdateWithoutEdit ==
    /\ agLast'.op = "update"
    /\ agSelected # NULL
    /\ agForm = [name |-> agSelected[1].name, strategy_type |-> agSelected[1].strategy_type]

PricesStep ==
    <<upPc, upSymbols, upMarket, upTodo, upWrites, upResponse>>'
        # <<upPc, upSymbols, upMarket, upTodo, upWrites, upResponse>>

\* the step changes no order, creates and deletes no position, and changes of a
\* position nothing but current_price, market_value and unrealized_pnl
OnlyPriceFields ==
    /\ orders' = orders
    /\ DOMAIN positions' = DOMAIN positions
    /\ \A i \in DOMAIN positions :
          positions'[i] = [positions[i] EXCEPT !.current_price = positions'[i].current_price,
                                               !.market_value = positions'[i].market_value,
                                               !.unrealized_pnl = positions'[i].unrealized_pnl]

\* C19: a step of an update-prices request changes only the price fields of
\* positions, no quantity and no average price, creates and deletes no position and
\* no order, and leaves every position whose quantity is 0 as it is.
C19_OnlyPricesOfOpenPositions ==
    [][PricesStep =>
          /\ OnlyPriceFields
          /\ \A i \in DOMAIN positions :
                positions[i].quantity = 0 => positions'[i] = positions[i]]_vars

(* -------------------- positions without a current price ----------------- *)
\* the tracker's entry of a position is valued at the position's average price
TrackerAtAverage(pos, entry) ==
    /\ entry.currentPrice = pos.average_price
    /\ entry.marketValue = pos.quantity * Num(pos.average_price)
    /\ entry.unrealizedPnL = 0
    /\ entry.pnlPercent = RatInt(0)

\* the dashboard's entry of a position is valued at the position's average price
DashboardAtAverage(pos, entry) ==
    /\ entry.current_price = pos.average_price
    /\ entry.market_value = pos.quantity * Num(pos.average_price)
    /\ entry.unrealized_pnl = 0

\* C20: a position whose current_price is null is shown at its average price by the
\* tracker and by the dashboard: current price = average_price, market value =
\* quantity * average_price, unrealized P&L 0 and P&L percentage 0.
C20_NullPriceValuedAtAverage ==
    /\ metrics # NULL =>
          \A k \in DOMAIN metrics[1].rows :
              metrics[1].rows[k].current_price = NULL
                  => TrackerAtAverage(metrics[1].rows[k], metrics[1].m.positions[k])
    /\ \A k \in DOMAIN dashPositions.rows :
          dashPositions.rows[k].current_price = NULL
              => DashboardAtAverage(dashPositions.rows[k], dashPositions.list[k])


(* ----------------------- sign of the average price ---------------------- *)
\* C21: after successful fills at positive prices, every position with a non-zero
\* quantity has an average price greater than 0.
C21_AveragePricePositive ==
    \A i \in DOMAIN positions :
        positions[i].quantity # 0
            => positions[i].avg_price.n > 0 /\ positions[i].avg_price.d > 0

(* ------------------------- quantity of an order ------------------------- *)
\* C22: executeOrder stores an order row only with a positive quantity and changes
\* a position only for a call whose quantity field holds a positive number.
C22_OnlyPositiveQuantities ==
    [][/\ \A i \in DOMAIN orders' :
             orders'[i].origin = "executeOrder" => orders'[i].quantity > 0
       /\ positions' # positions =>
             \E c \in Clients : pc[c] = "write" /\ ParseInt(call[c].qtyText) > 0]_vars

(* ------------------------ collaboration spinner ------------------------- *)
\* C23: once the initial fetchData of a mounted AgentCollaboration has finished, the
\* component eventually leaves its loading state.
C23_LoadingEnds == acDone ~> ~acLoading

(* ------------------------ agent list and table -------------------------- *)
\* C24: whenever no operation of AgentManagement is in flight, the displayed agent
\* list holds exactly the rows of trading_agents, each once.
C24_ListEqualsTable ==
    agCalls = {} =>
        /\ {agentList[i] : i \in DOMAIN agentList} = agentRows
        /\ Len(agentList) = Cardinality(agentRows)

(* ------------------------ rebalancing, outcome -------------------------- *)
\* the step is a run of executeAllRebalanceOrders over the three recommendations
RebalanceRun(c) ==
    /\ toasts'[c] # toasts[c]
    /\ Len(toasts'[c]) = Len(Recommendations) + 1

\* C25: a run of executeAllRebalanceOrders in which an insert failed ends with
\* "Rebalancing Failed" and not with "Portfolio Rebalanced"; "Portfolio Rebalanced"
\* for 3 orders is shown only when 3 orders were stored by the run.
C25_RebalancedOnlyWhenStored ==
    [][\A c \in Clients : RebalanceRun(c) =>
          LET last == toasts'[c][Len(toasts'[c])] IN
          /\ last = "Portfolio Rebalanced: 3 orders"
                => Len(orders') = Len(orders) + Len(Recommendations)
          /\ Len(orders') < Len(orders) + Len(Recommendations)
                => last = "Rebalancing Failed"]_vars

(* -------------------- generate-strategy, the warning -------------------- *)
\* C26: a success response of generate-strategy carries the "not saved" warning when
\* the strategy could not be stored, and a null warning exactly when the row was stored.
C26_WarningIffNotSaved ==
    (aiReq.route = "generate-strategy" /\ aiResponse.status = "200")
        => /\ aiSaved = "no" => aiResponse.warning # NULL
           /\ aiResponse.warning = NULL <=> aiSaved = "yes"

(* ------------------- collaborate, fewer than 2 agents ------------------- *)
\* the request served last is a collaborate request whose lookup returned null or
\* fewer than 2 agents
FewAgents(req) ==
    /\ req.route = "collaborate"
    /\ req.agents # NULL
    /\ req.agents[1] = NULL \/ req.agents[1][1] < 2

\* C27: a collaborate request that finds fewer than 2 agents (or null) is answered 400
\* "Need at least 2 agents for collaboration"; the language model is not called and no
\* agent_collaborations row is inserted.
C27_FewAgentsRejected ==
    [][FewAgents(aiReq') =>
          /\ aiResponse' = ErrorResponse("400", "Need at least 2 agents for collaboration")
          /\ aiPc' = "idle"
          /\ aiText' = NULL
          /\ aiSaved' = "none"
          /\ collabRows' = collabRows
          /\ strategyRows' = strategyRows]_vars

C27_Witness ==
    /\ aiReq.route = "collaborate"
    /\ aiReq.agents = Some(Some(1))
    /\ aiResponse.status = "400"
    /\ collabRows = 1

(* ----------------------- toggling a status twice ------------------------ *)
\* C28: after toggleAgentStatus has been applied twice in succession to the same agent,
\* both updates succeeding and each call given the stored status, the agent has the
\* status it had before, whichever of 'active', 'inactive', 'paused' that was.
C28_ToggleTwiceRestores ==
    agTwice.n = 2 =>
        \A r \in agentRows : r.id = agTwice.id => r.status = agTwice.before

(* --------------------------- generated quotes --------------------------- *)
\* C29: every quote of fetchSymbolData is a consistent price bar: the high is at least
\* the open and the close, the low is at most the open and the close, and the four
\* prices are positive.
C29_ConsistentBar ==
    quote # NULL =>
        LET q == quote[1] IN
        /\ q.high_price >= q.open_price /\ q.high_price >= q.close_price
        /\ q.low_price <= q.open_price /\ q.low_price <= q.close_price
        /\ q.open_price > 0 /\ q.high_price > 0 /\ q.low_price > 0 /\ q.close_price > 0
====
